---- MODULE Spec2Model ----
(***************************************************************************)
(* A model of the mutiny tplot-variable layer: the variable registry       *)
(* (data_quants), the global x-range history (tplot_opt_glob, lim_info),   *)
(* the hover-time broadcaster, and the operators that read and write them. *)
(*                                                                         *)
(* Names are sequences of one-character strings, so that glob matching and *)
(* suffixing are computed, not assumed.  Sample values are exact rationals *)
(* <<n, d>> (d > 0) extended with NaN = <<0,0>>, +Inf = <<1,0>> and        *)
(* -Inf = <<-1,0>>, which is how numpy's float results are represented.    *)
(* An optional item (a dict key that may be missing, a value that may be   *)
(* None) is the empty sequence when missing and a one- or two-element      *)
(* sequence when present.                                                  *)
(***************************************************************************)
EXTENDS Integers, Sequences, FiniteSets, TLC

VARIABLES
    data_quants,     \* mutiny.data_quants: sequence of [key, val], in insertion order
    tplot_opt_glob,  \* the x_range / x_range_last / x_range_full items of mutiny.tplot_opt_glob
    lim_info,        \* mutiny.lim_info: xfull, xlast
    hover,           \* mutiny.hover_time: hover_time and functions_to_call
    last,            \* the most recent call: operation, arguments, registry before it, outcome
    hist,            \* what the session has done so far: the number of xlim calls (up to
                     \* two), x_range as it was before the most recent of them, the
                     \* bounds of the first of them, and the number of in-place
                     \* arithmetic calls
    caller           \* a dict the caller holds and passes to store_data: as it is now
                     \* (data) and as the caller built it (built)

vars == <<data_quants, tplot_opt_glob, lim_info, hover, last, hist, caller>>

(***************************************************************************)
(* Bounds                                                                  *)
(***************************************************************************)
MaxVars == 3        \* registry entries
MaxSamples == 3     \* samples of a stored variable
MaxListeners == 3   \* registered hover-time listeners
MaxMath == 1        \* in-place arithmetic calls of a session
RecursionLimit == 8 \* depth of recursion at which a call ends in RecursionError

(***************************************************************************)
(* Sample values                                                           *)
(***************************************************************************)
NaN == <<0, 0>>
PosInf == <<1, 0>>
NegInf == <<-1, 0>>

R(n) == <<n, 1>>

Abs(x) == IF x < 0 THEN -x ELSE x

Sign(x) == IF x < 0 THEN -1 ELSE IF x > 0 THEN 1 ELSE 0

RECURSIVE GCD(_, _)
GCD(a, b) == IF b = 0 THEN a ELSE GCD(b, a % b)

Norm(n, d) ==
    IF d = 0 THEN <<Sign(n), 0>>
    ELSE LET g == GCD(Abs(n), Abs(d))
             s == IF d < 0 THEN -1 ELSE 1
         IN  <<(s * n) \div g, (s * d) \div g>>

isnan(a) == a = NaN

isfinite(a) == a[2] # 0

\* numpy float addition
FAdd(a, b) ==
    IF isnan(a) \/ isnan(b) THEN NaN
    ELSE IF a[2] = 0 /\ b[2] = 0 THEN (IF a = b THEN a ELSE NaN)
    ELSE IF a[2] = 0 THEN a
    ELSE IF b[2] = 0 THEN b
    ELSE Norm(a[1] * b[2] + b[1] * a[2], a[2] * b[2])

FNeg(a) == <<-a[1], a[2]>>

\* numpy float subtraction
FSub(a, b) == FAdd(a, FNeg(b))

\* numpy float multiplication
FMul(a, b) ==
    IF isnan(a) \/ isnan(b) THEN NaN
    ELSE IF a[2] = 0 \/ b[2] = 0 THEN <<Sign(a[1]) * Sign(b[1]), 0>>
    ELSE Norm(a[1] * b[1], a[2] * b[2])

\* numpy float division: x/0 is +-inf, 0/0 and inf/inf are nan
FDiv(a, b) ==
    IF isnan(a) \/ isnan(b) THEN NaN
    ELSE IF a[2] = 0 /\ b[2] = 0 THEN NaN
    ELSE IF a[2] = 0 THEN <<a[1] * (IF b[1] < 0 THEN -1 ELSE 1), 0>>
    ELSE IF b[2] = 0 THEN <<0, 1>>
    ELSE IF b[1] = 0 THEN <<Sign(a[1]), 0>>
    ELSE Norm(a[1] * b[2], a[2] * b[1])

\* a < b on non-NaN values
FLess(a, b) ==
    IF a[2] = 0 /\ b[2] = 0 THEN a[1] < b[1]
    ELSE IF a[2] = 0 THEN a[1] < 0
    ELSE IF b[2] = 0 THEN b[1] > 0
    ELSE a[1] * b[2] < b[1] * a[2]

FLeq(a, b) == a = b \/ FLess(a, b)

RECURSIVE SumSeq(_)
SumSeq(s) == IF s = <<>> THEN R(0) ELSE FAdd(s[1], SumSeq(Tail(s)))

NotNaN(s) == SelectSeq(s, LAMBDA v : ~isnan(v))

\* numpy.nanmean of a one-dimensional array (NaN when every item is NaN)
nanmean(s) ==
    LET ok == NotNaN(s)
    IN  IF ok = <<>> THEN NaN ELSE FDiv(SumSeq(ok), R(Len(ok)))

\* numpy.nanmin / numpy.max of a one-dimensional array
RECURSIVE MinSeq(_)
MinSeq(s) ==
    IF Len(s) = 1 THEN s[1]
    ELSE LET m == MinSeq(Tail(s)) IN IF FLess(s[1], m) THEN s[1] ELSE m

RECURSIVE MaxSeq(_)
MaxSeq(s) ==
    IF Len(s) = 1 THEN s[1]
    ELSE LET m == MaxSeq(Tail(s)) IN IF FLess(m, s[1]) THEN s[1] ELSE m

nanmin(s) == IF NotNaN(s) = <<>> THEN NaN ELSE MinSeq(NotNaN(s))

npmax(s) == IF NotNaN(s) # s \/ s = <<>> THEN NaN ELSE MaxSeq(s)

RECURSIVE Flatten(_)
Flatten(rows) == IF rows = <<>> THEN <<>> ELSE rows[1] \o Flatten(Tail(rows))

Column(rows, k) == [j \in 1..Len(rows) |-> rows[j][k]]

(***************************************************************************)
(* The registry: an OrderedDict as a sequence of [key, val]                *)
(***************************************************************************)
KeySeq(d) == [i \in 1..Len(d) |-> d[i].key]

Keys(d) == {d[i].key : i \in 1..Len(d)}

IndexOf(d, k) == CHOOSE i \in 1..Len(d) : d[i].key = k

Get(d, k) == d[IndexOf(d, k)].val

\* OrderedDict.__setitem__: an existing key keeps its position
Put(d, k, v) ==
    IF k \in Keys(d)
    THEN [i \in 1..Len(d) |-> IF d[i].key = k THEN [key |-> k, val |-> v] ELSE d[i]]
    ELSE Append(d, [key |-> k, val |-> v])

\* OrderedDict.__delitem__
Del(d, k) == SelectSeq(d, LAMBDA e : e.key # k)

\* OrderedDict(list of pairs)
RECURSIVE FromPairs(_, _)
FromPairs(pairs, acc) ==
    IF pairs = <<>> THEN acc
    ELSE FromPairs(Tail(pairs), Put(acc, pairs[1].key, pairs[1].val))

Outcome(d, ret, exc) == [d |-> d, ret |-> ret, exc |-> exc]

Absent == <<>>

(***************************************************************************)
(* Registry entries.  kind "RV" is a labelled array with attributes (a     *)
(* pseudo-variable is an RV entry with a non-empty overplots_mpl), kind    *)
(* "NRV" is the dict {'data', 'name'}, kind "None" is the Python None.     *)
(***************************************************************************)
NoExtras ==
    [spec |-> Absent, alt |-> Absent, map |-> Absent, plotter |-> Absent,
     spec_dim_to_plot |-> Absent]

NoYaxis == [y_range |-> Absent, y_range_user |-> FALSE]

NoOptions ==
    [overplots |-> <<>>, overplots_mpl |-> <<>>, extras |-> NoExtras,
     yaxis_opt |-> NoYaxis, trange |-> Absent]

NoneEntry ==
    [kind |-> "None", name |-> <<>>, time |-> <<>>, values |-> <<>>, ndim |-> 0,
     spec_bins |-> Absent, po |-> NoOptions]

NRVEntry(name, values) ==
    [kind |-> "NRV", name |-> name, time |-> <<>>, values |-> values, ndim |-> 1,
     spec_bins |-> Absent, po |-> NoOptions]

IsRV(e) == e.kind = "RV"

IsNRV(e) == e.kind = "NRV"

Truthy(opt) == opt # Absent /\ opt[1] # 0

NsPerSec == 1000000000

\* tplot_utilities.get_y_range: [min, max] of the plotted values, the
\* spectrogram bins in spectrogram mode and the data otherwise
get_y_range(e) ==
    LET plotted == IF Truthy(e.po.extras.spec) /\ e.spec_bins # Absent
                   THEN e.spec_bins ELSE Flatten(e.values)
    IN  <<nanmin(plotted), npmax(plotted)>>

WithYRange(e, r) == [e EXCEPT !.po.yaxis_opt.y_range = r]

\* get_data(name): (times in epoch seconds, values) of an RV entry
get_data_time(e) == [i \in 1..Len(e.time) |-> e.time[i] \div NsPerSec]

\* the plot_options store_data creates when attr_dict carries none; trange
\* is the first and last time in seconds
DefaultOptions(times) ==
    [overplots |-> <<>>, overplots_mpl |-> <<>>, extras |-> NoExtras,
     yaxis_opt |-> NoYaxis,
     trange |-> <<Norm(times[1], NsPerSec), Norm(times[Len(times)], NsPerSec)>>]

\* store_data, the record-varying path once the times are datetime64[ns]:
\* y of shape (n,) (ndim 1) or (n, m) (ndim 2), v the bin values (Absent
\* when there are none), attr the plot_options of attr_dict (Absent when
\* attr_dict has none)
StoreDatetimes(d, name, times, y, ndim, v, attr) ==
    IF Len(y) = 0 THEN Outcome(d, "False", "none")
    ELSE IF Len(times) # Len(y) THEN Outcome(d, "None", "none")
    ELSE IF ndim = 1 /\ v # Absent /\ Len(times) = 1 THEN Outcome(d, "None", "none")
    ELSE
      LET bins == IF ndim = 2 /\ v # Absent /\ Len(v) = Len(y[1]) THEN v ELSE Absent
          temp == [kind |-> "RV", name |-> name, time |-> times,
                   values |-> y, ndim |-> ndim, spec_bins |-> bins,
                   po |-> IF attr = Absent THEN DefaultOptions(times) ELSE attr[1]]
      IN  Outcome(Put(d, name, WithYRange(temp, get_y_range(temp))), "True", "none")

\* store_data, the record-varying path: data = {'x': x, 'y': y [, 'v': v]},
\* x in whole epoch seconds, converted to nanoseconds
StoreRV(d, name, x, y, ndim, v, attr) ==
    StoreDatetimes(d, name, [i \in 1..Len(x) |-> x[i] * NsPerSec], y, ndim, v, attr)

\* a conversion of numeric times that keeps whole seconds only
whole_seconds_to_datetime64(x) ==
    IF ~isfinite(x) THEN 0 ELSE ((x[1] \div x[2]) * NsPerSec)

\* numeric times to datetime64[ns]: a NaN or infinite time becomes 0, then
\* numpy.array(times * 1e09, dtype='datetime64[ns]') drops what is left of
\* a nanosecond (the times here are not negative)
seconds_to_datetime64(x) ==
    IF ~isfinite(x) THEN 0 ELSE ((x[1] * NsPerSec) \div x[2])

\* store_data, the record-varying path with times given as float seconds
StoreFloatTimes(d, name, x, y, ndim, v, attr) ==
    StoreDatetimes(d, name, [i \in 1..Len(x) |-> seconds_to_datetime64(x[i])],
                   y, ndim, v, attr)

\* time_float of a datetime64[ns]: epoch seconds
time_float(ns) == Norm(ns, NsPerSec)

\* store_data, the non-record-varying path: data = {'y': y}
StoreNRV(d, name, y) == Outcome(Put(d, name, NRVEntry(name, y)), "True", "none")

\* str.split(' ')
RECURSIVE Split(_, _)
Split(s, cur) ==
    IF s = <<>> THEN <<cur>>
    ELSE IF s[1] = " " THEN <<cur>> \o Split(Tail(s), <<>>)
    ELSE Split(Tail(s), Append(cur, s[1]))

\* _get_base_tplot_vars: the listed names that are registry keys; reading
\* .data of an NRV dict or of None raises AttributeError.  The recursive
\* branch is taken when .data is a list; .data of a labelled array, a
\* pseudo-variable's included, is its numpy array, so no listed name is
\* expanded
RECURSIVE get_base_tplot_vars(_, _)
get_base_tplot_vars(d, data) ==
    IF data = <<>> THEN [base |-> <<>>, exc |-> "none"]
    ELSE IF data[1] \notin Keys(d) THEN get_base_tplot_vars(d, Tail(data))
    ELSE IF ~IsRV(Get(d, data[1])) THEN [base |-> <<>>, exc |-> "AttributeError"]
    ELSE LET rest == get_base_tplot_vars(d, Tail(data))
         IN  [base |-> <<data[1]>> \o rest.base, exc |-> rest.exc]

\* a pseudo-variable path that removes the entry under name when no listed
\* name resolves
StorePseudoDropsName(d, name, data) ==
    LET r == get_base_tplot_vars(d, data)
    IN  IF r.exc # "none" THEN Outcome(d, "raise", r.exc)
        ELSE IF Len(r.base) = 0 THEN Outcome(Del(d, name), "False", "none")
        ELSE LET first == Get(d, r.base[1])
                 e == [first EXCEPT !.name = name,
                                    !.po.overplots = Tail(r.base),
                                    !.po.overplots_mpl = r.base,
                                    !.po.yaxis_opt = NoYaxis,
                                    !.po.extras = NoExtras]
             IN  Outcome(Put(d, name, e), "True", "none")

\* store_data, the pseudo-variable path: data is a list of names
StorePseudo(d, name, data) ==
    LET r == get_base_tplot_vars(d, data)
    IN  IF r.exc # "none" THEN Outcome(d, "raise", r.exc)
        ELSE IF Len(r.base) = 0 THEN Outcome(d, "False", "none")
        ELSE LET first == Get(d, r.base[1])
                 e == [first EXCEPT !.name = name,
                                    !.po.overplots = Tail(r.base),
                                    !.po.overplots_mpl = r.base,
                                    !.po.yaxis_opt = NoYaxis,
                                    !.po.extras = NoExtras]
             IN  Outcome(Put(d, name, e), "True", "none")

\* store_data(name, data, delete, newname) is assembled below, after the
\* operators it delegates to.

(***************************************************************************)
(* Registry maintenance: rename, copy, delete                              *)
(***************************************************************************)
SetName(e, k) == IF e.kind = "None" THEN e ELSE [e EXCEPT !.name = k]

\* a rename that deletes the old key and inserts the new one at the end
tplot_rename_reinsert(d, old_name, new_name) ==
    IF old_name \notin Keys(d) THEN Outcome(d, "None", "none")
    ELSE Outcome(Put(Del(d, old_name), new_name, SetName(Get(d, old_name), new_name)),
                 "None", "none")

\* a rename that also renames the component in every pseudo-variable's lists
Relinked(names, old_name, new_name) ==
    [k \in 1..Len(names) |-> IF names[k] = old_name THEN new_name ELSE names[k]]

tplot_rename_relinking(d, old_name, new_name) ==
    IF old_name \notin Keys(d) THEN Outcome(d, "None", "none")
    ELSE Outcome([i \in 1..Len(d) |->
                    LET k == IF d[i].key = old_name THEN new_name ELSE d[i].key
                        e == SetName(d[i].val, k)
                    IN  [key |-> k,
                         val |-> [e EXCEPT !.po.overplots = Relinked(@, old_name, new_name),
                                           !.po.overplots_mpl = Relinked(@, old_name, new_name)]]],
                 "None", "none")

\* tplot_rename: the entries in order, with new_name in old_name's slot
\* (d2 is built from the pairs, so a repeated key keeps its first slot and
\* its last value), then every entry's name is set to its key, in order;
\* None has no name to set, and the entries before it are already renamed
tplot_rename(d, old_name, new_name) ==
    IF old_name \notin Keys(d) THEN Outcome(d, "None", "none")
    ELSE LET pairs == [i \in 1..Len(d) |->
                         [key |-> IF d[i].key = old_name THEN new_name ELSE d[i].key,
                          val |-> i]]
             d2 == FromPairs(pairs, <<>>)
             bad == {i \in 1..Len(d2) : d[d2[i].val].val.kind = "None"}
         IN  IF bad = {}
             THEN Outcome([i \in 1..Len(d2) |->
                             [key |-> d2[i].key,
                              val |-> SetName(d[d2[i].val].val, d2[i].key)]],
                          "None", "none")
             ELSE LET stop == CHOOSE i \in bad : \A j \in bad : i <= j
                      NewName(j) ==
                          IF \E i \in 1..(stop - 1) : d2[i].val = j
                          THEN d2[CHOOSE i \in 1..(stop - 1) : d2[i].val = j].key
                          ELSE d[j].val.name
                  IN  Outcome([j \in 1..Len(d) |->
                                 [key |-> d[j].key, val |-> SetName(d[j].val, NewName(j))]],
                              "raise", "AttributeError")

\* a copy that leaves the source's name on the new entry
tplot_copy_keeping_name(d, old_name, new_name) ==
    IF old_name \notin Keys(d) THEN Outcome(d, "None", "none")
    ELSE Outcome(Put(d, new_name, Get(d, old_name)), "None", "none")

\* tplot_copy: an NRV source is stored again under the new name, any other
\* source is deep-copied and renamed
tplot_copy(d, old_name, new_name) ==
    IF old_name \notin Keys(d) THEN Outcome(d, "None", "none")
    ELSE LET src == Get(d, old_name)
         IN  IF IsNRV(src) THEN StoreNRV(d, new_name, src.values)
             ELSE IF src.kind = "None" THEN Outcome(Put(d, new_name, src), "raise", "AttributeError")
             ELSE Outcome(Put(d, new_name, [src EXCEPT !.name = new_name]), "None", "none")

\* fnmatch.fnmatchcase on '*' and '?' (names carry no '[')
RECURSIVE fnmatchcase(_, _)
fnmatchcase(name, pat) ==
    IF pat = <<>> THEN name = <<>>
    ELSE IF pat[1] = "*"
         THEN fnmatchcase(name, Tail(pat))
              \/ (name # <<>> /\ fnmatchcase(Tail(name), pat))
    ELSE IF pat[1] = "?"
         THEN name # <<>> /\ fnmatchcase(Tail(name), Tail(pat))
    ELSE name # <<>> /\ name[1] = pat[1] /\ fnmatchcase(Tail(name), Tail(pat))

\* os.path.normcase on POSIX leaves the text as it is
fnmatch(name, pat) == fnmatchcase(name, pat)

IsWild(i) == \E c \in 1..Len(i) : i[c] = "?" \/ i[c] = "*"

RECURSIVE DelAll(_, _)
DelAll(d, entries) ==
    IF entries = <<>> THEN d ELSE DelAll(Del(d, entries[1]), Tail(entries))

\* a collection that stops at the first matching entry
MatchingNamesFirst(d, i) ==
    LET hit == SelectSeq(d, LAMBDA e : fnmatch(e.val.name, i))
    IN  IF hit = <<>> THEN <<>> ELSE <<hit[1].val.name>>

\* the names del_data collects for one wildcard item: every entry's own name
\* that matches; reading the name of None raises AttributeError
MatchingNames(d, i) ==
    LET hit == SelectSeq(d, LAMBDA e : fnmatch(e.val.name, i))
    IN  [j \in 1..Len(hit) |-> hit[j].val.name]

\* a loop that skips a literal name that is not in the registry
RECURSIVE del_data_loop_skipping(_, _, _)
del_data_loop_skipping(d, names, entries) ==
    IF names = <<>> THEN Outcome(d, "None", "none")
    ELSE LET i == names[1]
         IN  IF IsWild(i)
             THEN IF \E j \in 1..Len(d) : d[j].val.kind = "None"
                  THEN Outcome(d, "raise", "AttributeError")
                  ELSE LET found == entries \o MatchingNames(d, i)
                       IN  del_data_loop_skipping(DelAll(d, found), Tail(names), found)
             ELSE IF i \notin Keys(d) THEN del_data_loop_skipping(d, Tail(names), entries)
             ELSE IF Get(d, i).kind = "None" THEN Outcome(d, "raise", "AttributeError")
             ELSE IF Get(d, i).name \notin Keys(d) THEN Outcome(d, "raise", "KeyError")
             ELSE del_data_loop_skipping(Del(d, Get(d, i).name), Tail(names), entries)

\* del_data's loop over the listed names; entries accumulates over the items
RECURSIVE del_data_loop(_, _, _)
del_data_loop(d, names, entries) ==
    IF names = <<>> THEN Outcome(d, "None", "none")
    ELSE LET i == names[1]
         IN  IF IsWild(i)
             THEN IF \E j \in 1..Len(d) : d[j].val.kind = "None"
                  THEN Outcome(d, "raise", "AttributeError")
                  ELSE LET found == entries \o MatchingNames(d, i)
                       IN  del_data_loop(DelAll(d, found), Tail(names), found)
             ELSE IF i \notin Keys(d) THEN Outcome(d, "None", "none")
             ELSE IF Get(d, i).kind = "None" THEN Outcome(d, "raise", "AttributeError")
             ELSE IF Get(d, i).name \notin Keys(d) THEN Outcome(d, "raise", "KeyError")
             ELSE del_data_loop(Del(d, Get(d, i).name), Tail(names), entries)

\* del_data(): no name clears the registry
del_data_all(d) == Outcome(<<>>, "None", "none")

\* del_data(name) with a name or a list of names
del_data(d, names) == del_data_loop(d, names, <<>>)

(***************************************************************************)
(* store_data(name, data, delete, newname).  data is                       *)
(*   [tag |-> "none"]                     no data argument                 *)
(*   [tag |-> "str",  list |-> chars]     a space-delimited string         *)
(*   [tag |-> "list", list |-> names]     a list of names                  *)
(*   [tag |-> "nrv",  y]                  a dict without 'x'               *)
(*   [tag |-> "rv",   x, y, ndim, v]      a dict with 'x', whole seconds   *)
(*   [tag |-> "rvf",  x, y, ndim, v]      a dict with 'x', float seconds   *)
(***************************************************************************)
NoData == [tag |-> "none", list |-> <<>>, x |-> <<>>, y |-> <<>>, ndim |-> 0, v |-> Absent]

StrData(chars) == [NoData EXCEPT !.tag = "str", !.list = chars]

ListData(names) == [NoData EXCEPT !.tag = "list", !.list = names]

NRVData(y) == [NoData EXCEPT !.tag = "nrv", !.y = y]

RVData(x, y, ndim, v) == [tag |-> "rv", list |-> <<>>, x |-> x, y |-> y, ndim |-> ndim, v |-> v]

FloatData(x, y, ndim, v) == [RVData(x, y, ndim, v) EXCEPT !.tag = "rvf"]

Returning(out, ret) == IF out.exc = "none" THEN [out EXCEPT !.ret = ret] ELSE out

\* a store_data that looks at newname before it looks at delete
store_data_newname_first(d, name, data, delete, newname) ==
    IF newname # Absent THEN Returning(tplot_rename(d, name, newname[1]), "True")
    ELSE IF delete THEN Returning(del_data(d, <<name>>), "False")
    ELSE IF data.tag = "none" THEN Outcome(d, "False", "none")
    ELSE IF data.tag = "str" THEN StorePseudo(d, name, Split(data.list, <<>>))
    ELSE IF data.tag = "list" THEN StorePseudo(d, name, data.list)
    ELSE IF data.tag = "nrv" THEN StoreNRV(d, name, data.y)
    ELSE IF data.tag = "rvf"
    THEN StoreFloatTimes(d, name, data.x, data.y, data.ndim, data.v, Absent)
    ELSE StoreRV(d, name, data.x, data.y, data.ndim, data.v, Absent)

store_data(d, name, data, delete, newname) ==
    IF delete THEN Returning(del_data(d, <<name>>), "False")
    ELSE IF data.tag = "none" /\ newname = Absent THEN Outcome(d, "False", "none")
    ELSE IF newname # Absent THEN Returning(tplot_rename(d, name, newname[1]), "True")
    ELSE IF data.tag = "str" THEN StorePseudo(d, name, Split(data.list, <<>>))
    ELSE IF data.tag = "list" THEN StorePseudo(d, name, data.list)
    ELSE IF data.tag = "nrv" THEN StoreNRV(d, name, data.y)
    ELSE IF data.tag = "rvf"
    THEN StoreFloatTimes(d, name, data.x, data.y, data.ndim, data.v, Absent)
    ELSE StoreRV(d, name, data.x, data.y, data.ndim, data.v, Absent)

(***************************************************************************)
(* store_data on the caller's own dict.  A mapping has the items x, y and  *)
(* v, each <<>> when the key is missing and <<value>> when it is there (a  *)
(* v of <<Absent>> is the key 'v' with the value None), and the number of  *)
(* dimensions of y.                                                        *)
(***************************************************************************)
NoMapping == [x |-> Absent, y |-> Absent, v |-> Absent, ndim |-> 0]

\* store_data(name, data=m): the outcome and the mapping as the call leaves
\* it.  'x' and 'y' are popped from the mapping, and a two-dimensional y
\* without bins adds 'v': None to it
store_data_mapping(d, name, m) ==
    IF m.x = Absent
    THEN IF m.y = Absent THEN [out |-> Outcome(d, "raise", "KeyError"), m |-> m]
         ELSE [out |-> StoreNRV(d, name, m.y[1]), m |-> [m EXCEPT !.y = Absent]]
    ELSE IF m.y = Absent
    THEN [out |-> Outcome(d, "raise", "KeyError"), m |-> [m EXCEPT !.x = Absent]]
    ELSE [out |-> StoreRV(d, name, m.x[1], m.y[1], m.ndim,
                          IF m.v = Absent THEN Absent ELSE m.v[1], Absent),
          m |-> [m EXCEPT !.x = Absent, !.y = Absent,
                          !.v = IF m.v = Absent /\ m.ndim = 2 THEN <<Absent>> ELSE @]]

(***************************************************************************)
(* The calls of a session                                                  *)
(***************************************************************************)
Call(op, name, arg, num, pre, out, log) ==
    [op |-> op, name |-> name, arg |-> arg, num |-> num, pre |-> pre,
     ret |-> out.ret, exc |-> out.exc, log |-> log]

NoCall ==
    [op |-> "init", name |-> <<>>, arg |-> <<>>, num |-> <<>>, pre |-> <<>>,
     ret |-> "None", exc |-> "none", log |-> <<>>]

Init ==
    /\ data_quants = <<>>
    /\ tplot_opt_glob = [x_range |-> Absent, x_range_last |-> Absent, x_range_full |-> Absent]
    /\ lim_info = [xfull |-> Absent, xlast |-> Absent]
    /\ hover = [hover_time |-> 0, functions_to_call |-> <<>>]
    /\ last = NoCall
    /\ hist = [xlims |-> 0, before |-> Absent, first |-> Absent, math |-> 0]
    /\ caller = [data |-> NoMapping, built |-> NoMapping]

\* a registry call: the registry becomes the call's outcome
RegistryCall(op, name, arg, num, out) ==
    /\ Len(out.d) <= MaxVars
    /\ data_quants' = out.d
    /\ last' = Call(op, name, arg, num, data_quants, out, <<>>)
    /\ UNCHANGED <<tplot_opt_glob, lim_info, hover, hist, caller>>

Names == {<<"a">>, <<"b">>, <<"a", "b">>}

Patterns == {<<"a", "*">>, <<"?">>, <<"*", "b">>, <<"?", "b">>}

SampleData ==
    {RVData(<<0, 2>>, <<<<R(1)>>, <<R(2)>>>>, 1, Absent),
     RVData(<<0>>, <<<<NaN>>>>, 1, Absent),
     NRVData(<<<<R(5)>>>>)}

PseudoNames == {<<"a", "b">>}

NameLists == {<<<<"a">>, <<"b">>>>, <<<<"a", "b">>, <<"a">>>>, <<<<"b">>, <<"b">>>>}

NameStrings == {<<"b", " ", "a">>, <<"a", "b", " ", " ", "b">>}

DelLists ==
    {<<<<"a">>, <<"b">>>>, <<<<"?">>, <<"a", "b">>>>, <<<<"a", "b">>, <<"?">>>>,
     <<<<"a", "*">>, <<"*", "b">>>>, <<<<"a">>, <<"a", "b">>, <<"?">>>>}

StoreDataDict ==
    \E name \in Names, data \in SampleData :
        RegistryCall("store_data", name, <<>>, <<>>,
                     store_data(data_quants, name, data, FALSE, Absent))

StoreDataList ==
    \E name \in PseudoNames, L \in NameLists :
        RegistryCall("store_data_list", name, L, <<>>,
                     store_data(data_quants, name, ListData(L), FALSE, Absent))

StoreDataString ==
    \E name \in PseudoNames, L \in NameStrings :
        RegistryCall("store_data_string", name, L, <<>>,
                     store_data(data_quants, name, StrData(L), FALSE, Absent))

\* store_data(name, delete=True), alone and with data and a newname
StoreDataDelete ==
    \E name \in Names \cup {<<"a", "*">>},
       data \in {NoData, RVData(<<0, 2>>, <<<<R(1)>>, <<R(2)>>>>, 1, Absent)},
       newname \in {Absent, <<<<"b">>>>} :
        RegistryCall("store_data_delete", name, newname, <<data.tag>>,
                     store_data(data_quants, name, data, TRUE, newname))

StoreDataNewname ==
    \E name \in Names, new \in Names :
        RegistryCall("store_data_newname", name, new, <<>>,
                     store_data(data_quants, name, NoData, FALSE, <<new>>))

TplotRename ==
    \E old \in Names, new \in Names :
        RegistryCall("tplot_rename", old, new, <<>>, tplot_rename(data_quants, old, new))

TplotCopy ==
    \E old \in Names, new \in Names :
        RegistryCall("tplot_copy", old, new, <<>>, tplot_copy(data_quants, old, new))

DelDataAll == RegistryCall("del_data_all", <<>>, <<>>, <<>>, del_data_all(data_quants))

DelData ==
    \E i \in Names \cup Patterns :
        RegistryCall("del_data", i, <<i>>, <<>>, del_data(data_quants, <<i>>))

DelDataList ==
    \E L \in DelLists :
        RegistryCall("del_data_list", <<>>, L, <<>>, del_data(data_quants, L))

\* the registry of record-varying and non-record-varying variables
Next ==
    \/ StoreDataDict
    \/ StoreDataDelete
    \/ StoreDataNewname
    \/ TplotRename
    \/ TplotCopy
    \/ DelDataAll
    \/ DelData
    \/ DelDataList

Spec == Init /\ [][Next]_vars

\* the registry with pseudo-variables
NextPseudo ==
    \/ StoreDataDict
    \/ StoreDataList
    \/ StoreDataString
    \/ DelData

SpecPseudo == Init /\ [][NextPseudo]_vars

(***************************************************************************)
(* The global x range: xlim and tlimit                                     *)
(***************************************************************************)
\* xlim(min, max) with numeric bounds
xlim(g, l, range) ==
    IF g.x_range # Absent
    THEN [g |-> [g EXCEPT !.x_range_last = g.x_range, !.x_range = <<range>>],
          l |-> [l EXCEPT !.xlast = g.x_range],
          exc |-> "none"]
    ELSE [g |-> [g EXCEPT !.x_range_full = <<range>>, !.x_range = <<range>>],
          l |-> [l EXCEPT !.xfull = <<range>>, !.xlast = <<range>>],
          exc |-> "none"]

\* tlimit(last=True): reading a missing x_range_last raises KeyError
tlimit_last(g, l) ==
    IF g.x_range_last = Absent THEN [g |-> g, l |-> l, exc |-> "KeyError"]
    ELSE [g |-> [g EXCEPT !.x_range = g.x_range_last], l |-> l, exc |-> "none"]

\* tlimit(full=True)
tlimit_full(g, l) == [g |-> [g EXCEPT !.x_range = Absent], l |-> l, exc |-> "none"]

Ranges == {<<0, 10>>, <<5, 20>>, <<1, 2>>}

\* tlimit(arg, full, last); arg is None, 'full', 'last' or a list [min, max]
tlimit(g, l, arg, full, lastflag) ==
    IF full \/ arg.tag = "full" THEN tlimit_full(g, l)
    ELSE IF lastflag \/ arg.tag = "last" THEN tlimit_last(g, l)
    ELSE IF arg.tag = "list" THEN xlim(g, l, arg.range)
    ELSE [g |-> g, l |-> l, exc |-> "none"]

TlimitBranch(arg, full, lastflag) ==
    IF full \/ arg.tag = "full" THEN "tlimit_full"
    ELSE IF lastflag \/ arg.tag = "last" THEN "tlimit_last"
    ELSE IF arg.tag = "list" THEN "tlimit_xlim"
    ELSE "tlimit_none"

TlimitArgs ==
    {[tag |-> t, range |-> <<>>] : t \in {"none", "full", "last"}}
        \cup {[tag |-> "list", range |-> r] : r \in Ranges}

LimitCall(op, arg, out, isxlim) ==
    /\ tplot_opt_glob' = out.g
    /\ lim_info' = out.l
    /\ last' = [NoCall EXCEPT !.op = op, !.arg = arg, !.exc = out.exc,
                              !.ret = IF out.exc = "none" THEN "None" ELSE "raise"]
    /\ hist' = IF isxlim
               THEN [hist EXCEPT !.xlims = IF hist.xlims < 2 THEN hist.xlims + 1 ELSE 2,
                                 !.before = tplot_opt_glob.x_range,
                                 !.first = IF hist.xlims = 0 THEN <<arg>> ELSE @]
               ELSE hist
    /\ UNCHANGED <<data_quants, hover, caller>>

Xlim ==
    \E r \in Ranges : LimitCall("xlim", r, xlim(tplot_opt_glob, lim_info, r), TRUE)

Tlimit ==
    \E arg \in TlimitArgs, full \in BOOLEAN, lastflag \in BOOLEAN :
        LimitCall(TlimitBranch(arg, full, lastflag), arg.range,
                  tlimit(tplot_opt_glob, lim_info, arg, full, lastflag),
                  TlimitBranch(arg, full, lastflag) = "tlimit_xlim")

NextLim == Xlim \/ Tlimit

SpecLim == Init /\ [][NextLim]_vars

(***************************************************************************)
(* The hover-time broadcaster.  A listener is a callable that returns or   *)
(* raises an Exception when it is called.                                  *)
(***************************************************************************)
Listeners == {"f", "g", "boom"}

\* calling a listener: the exception it raises, if any
Invoke(f, t, name) == IF f = "boom" THEN "Exception" ELSE "none"

\* HoverTime.register_listener
register_listener(h, fn) == [h EXCEPT !.functions_to_call = Append(@, fn)]

\* a notification loop without the try/except: the first exception ends it
RECURSIVE notify_unguarded(_, _, _, _)
notify_unguarded(fns, t, name, log) ==
    IF fns = <<>> THEN [log |-> log, exc |-> "none"]
    ELSE LET called == Append(log, [fn |-> fns[1], time |-> t, name |-> name])
         IN  IF Invoke(fns[1], t, name) # "none"
             THEN [log |-> called, exc |-> Invoke(fns[1], t, name)]
             ELSE notify_unguarded(Tail(fns), t, name, called)

\* the loop of change_hover_time: each listener is called with the stored
\* hover time and the name; an Exception it raises is printed and dropped
RECURSIVE notify(_, _, _, _)
notify(fns, t, name, log) ==
    IF fns = <<>> THEN [log |-> log, exc |-> "none"]
    ELSE notify(Tail(fns), t, name, Append(log, [fn |-> fns[1], time |-> t, name |-> name]))

\* HoverTime.change_hover_time
change_hover_time(h, new_time, name) ==
    LET h2 == [h EXCEPT !.hover_time = new_time]
        r == notify(h2.functions_to_call, h2.hover_time, name, <<>>)
    IN  [h |-> h2, log |-> r.log, exc |-> r.exc]

HoverTimes == {1, 2}

HoverNames == {Absent, <<<<"a">>>>}

RegisterListener ==
    \E fn \in Listeners :
        /\ Len(hover.functions_to_call) < MaxListeners
        /\ hover' = register_listener(hover, fn)
        /\ last' = [NoCall EXCEPT !.op = "register_listener", !.name = <<fn>>]
        /\ UNCHANGED <<data_quants, tplot_opt_glob, lim_info, hist, caller>>

ChangeHoverTime ==
    \E t \in HoverTimes, name \in HoverNames :
        LET out == change_hover_time(hover, t, name)
        IN  /\ hover' = out.h
            /\ last' = [NoCall EXCEPT !.op = "change_hover_time", !.arg = name,
                                      !.num = <<t>>, !.log = out.log, !.exc = out.exc,
                                      !.ret = IF out.exc = "none" THEN "None" ELSE "raise"]
            /\ UNCHANGED <<data_quants, tplot_opt_glob, lim_info, hist, caller>>

NextHover == RegisterListener \/ ChangeHoverTime

SpecHover == Init /\ [][NextHover]_vars

(***************************************************************************)
(* Data replacement, plot-mode options and in-place arithmetic             *)
(***************************************************************************)
\* replace_data(tplot_name, new_data): new is [values, ndim]
replace_data(d, tplot_name, new) ==
    IF tplot_name \notin Keys(d) THEN Outcome(d, "None", "none")
    ELSE LET e == Get(d, tplot_name)
         IN  IF ~IsRV(e) THEN Outcome(d, "raise", "AttributeError")
             ELSE IF new.ndim # e.ndim \/ Len(new.values) # Len(e.values)
                     \/ Len(new.values[1]) # Len(e.values[1])
             THEN Outcome(d, "None", "none")
             ELSE LET e2 == [e EXCEPT !.values = new.values]
                  IN  Outcome(Put(d, tplot_name, WithYRange(e2, get_y_range(e2))), "None", "none")

\* a test for the bins that every variable passes
has_spec_bins_always(e) == TRUE

\* 'spec_bins' in data_quants[i].coords
has_spec_bins(e) == e.spec_bins # Absent

\* a reset that leaves the mode flags as they are
reset_plots_skipped(e) == e

\* options._reset_plots
reset_plots(e) ==
    [e EXCEPT !.po.extras.spec = <<0>>, !.po.extras.alt = <<0>>,
              !.po.extras.map = <<0>>, !.po.extras.plotter = <<0>>]

\* the default dimension a spectrogram is plotted by, set when extras has
\* none: 'v' when the variable has a v coordinate (stored with its bins),
\* 'v1' otherwise
default_spec_dim(e) ==
    IF e.po.extras.spec_dim_to_plot # Absent THEN e
    ELSE [e EXCEPT !.po.extras.spec_dim_to_plot =
                       IF e.spec_bins # Absent THEN <<"v">> ELSE <<"v1">>]

\* options(name, option, value) for option in spec, alt, map, plotter,
\* yrange; value is <<v>> (<<0>> is a false flag or the plotter None) and
\* for yrange the pair [min, max]
options(d, name, option, value) ==
    IF name \notin Keys(d) THEN Outcome(d, "None", "none")
    ELSE LET e == Get(d, name)
             r == reset_plots(e)
         IN  IF ~IsRV(e) THEN Outcome(d, "raise", "AttributeError")
             ELSE IF option = "spec"
             THEN IF Truthy(value) /\ ~has_spec_bins(e)
                  THEN Outcome(Put(d, name, r), "None", "none")
                  ELSE LET e2 == [r EXCEPT !.po.extras.spec = value]
                       IN  Outcome(Put(d, name,
                                       default_spec_dim(WithYRange(e2, get_y_range(e2)))),
                                   "None", "none")
             ELSE IF option = "alt"
             THEN Outcome(Put(d, name, [r EXCEPT !.po.extras.alt = value]), "None", "none")
             ELSE IF option = "map"
             THEN Outcome(Put(d, name, [r EXCEPT !.po.extras.map = value]), "None", "none")
             ELSE IF option = "plotter"
             THEN Outcome(Put(d, name, [r EXCEPT !.po.extras.plotter = value]), "None", "none")
             ELSE IF option = "yrange"
             THEN Outcome(Put(d, name, [e EXCEPT !.po.yaxis_opt = [y_range |-> value,
                                                                   y_range_user |-> TRUE]]),
                          "None", "none")
             ELSE Outcome(d, "None", "none")

\* options(names, option, value) with a list of names: the names in order;
\* the call returns at the first name that is not a registry key
RECURSIVE options_list(_, _, _, _)
options_list(d, names, option, value) ==
    IF names = <<>> THEN Outcome(d, "None", "none")
    ELSE IF names[1] \notin Keys(d) THEN Outcome(d, "None", "none")
    ELSE LET r == options(d, names[1], option, value)
         IN  IF r.exc # "none" THEN r
             ELSE options_list(r.d, Tail(names), option, value)

\* ylim(name, min, max): options(name, 'y_range', [min, max]) on a stored name
ylim(d, name, min, max) ==
    IF name \notin Keys(d) THEN Outcome(d, "None", "none")
    ELSE options(d, name, "yrange", <<min, max>>)

\* options(n, option, value) with an integer n: the name is
\* list(data_quants.keys())[n], a Python list index (0 is the first key, a
\* negative n counts from the end, an n outside the list raises IndexError)
options_index(d, n, option, value) ==
    IF n >= Len(d) \/ n < -Len(d) THEN Outcome(d, "raise", "IndexError")
    ELSE options(d, KeySeq(d)[IF n >= 0 THEN n + 1 ELSE Len(d) + n + 1], option, value)

\* linear interpolation of the samples (ts, col) at time t, NaN outside
\* the sampled interval
interp1(ts, col, t) ==
    IF t < ts[1] \/ t > ts[Len(ts)] THEN NaN
    ELSE IF \E i \in 1..Len(ts) : ts[i] = t
    THEN col[CHOOSE i \in 1..Len(ts) : ts[i] = t]
    ELSE LET i == CHOOSE i \in 1..(Len(ts) - 1) : ts[i] < t /\ t < ts[i + 1]
         IN  FAdd(col[i], FMul(FSub(col[i + 1], col[i]),
                               Norm(t - ts[i], ts[i + 1] - ts[i])))

\* DataArray.interp_like: other's samples on the times of like
interp_like(other, like) ==
    LET ts == get_data_time(other)
        tl == get_data_time(like)
    IN  [other EXCEPT !.time = like.time,
                      !.values = [j \in 1..Len(tl) |->
                                    [k \in 1..Len(other.values[1]) |->
                                       interp1(ts, Column(other.values, k), tl[j])]]]

TinterpSuffix == <<"_", "t", "i", "n", "t", "e", "r", "p">>

\* tinterp(tvar1, tvar2): stores tvar2 on tvar1's times as tvar1 + '_tinterp'
tinterp(d, tvar1, tvar2) ==
    IF tvar2 \notin Keys(d) THEN Outcome(d, "raise", "KeyError")
    ELSE IF ~IsRV(Get(d, tvar2)) THEN Outcome(d, "raise", "AttributeError")
    ELSE IF tvar1 \notin Keys(d) THEN Outcome(d, "raise", "KeyError")
    ELSE IF ~IsRV(Get(d, tvar1)) THEN Outcome(d, "raise", "AttributeError")
    ELSE LET new_tvar2 == interp_like(Get(d, tvar2), Get(d, tvar1))
         IN  Outcome(Put(d, tvar1 \o TinterpSuffix,
                         [new_tvar2 EXCEPT !.name = tvar1 \o TinterpSuffix]),
                     "name", "none")

\* numpy elementwise arithmetic on two arrays of one shape
Elementwise(op, data1, data2) ==
    [j \in 1..Len(data1) |->
       [k \in 1..Len(data1[1]) |->
          IF op = "divide" THEN FDiv(data1[j][k], data2[j][k])
          ELSE IF op = "multiply" THEN FMul(data1[j][k], data2[j][k])
          ELSE FSub(data1[j][k], data2[j][k])]]

\* divide / multiply / subtract (tvar1, tvar2) without newname: tvar1's
\* values are replaced.  The variables stored here have shapes that agree
\* or cannot be broadcast against each other (ValueError).
math_in_place(d, op, tvar1, tvar2) ==
    LET t == tinterp(d, tvar1, tvar2)
    IN  IF t.exc # "none" THEN t
        ELSE LET e1 == Get(t.d, tvar1)
                 e2 == Get(t.d, tvar1 \o TinterpSuffix)
             IN  IF ~IsRV(e1) THEN Outcome(t.d, "raise", "AttributeError")
                 ELSE IF e1.ndim # e2.ndim \/ Len(e1.values[1]) # Len(e2.values[1])
                 THEN Outcome(t.d, "raise", "ValueError")
                 ELSE Outcome(Put(t.d, tvar1,
                                  [e1 EXCEPT !.values = Elementwise(op, e1.values, e2.values)]),
                              "name", "none")

\* divide / multiply / subtract (tvar1, tvar2, newname): with a newname the
\* result is stored under it with tvar1's times and bins, and its attrs
\* become a deep copy of tvar1's; divide returns new_tvar, which is None,
\* multiply and subtract return newname
math(d, op, tvar1, tvar2, newname) ==
    IF newname = Absent THEN math_in_place(d, op, tvar1, tvar2)
    ELSE
      LET t == tinterp(d, tvar1, tvar2)
      IN  IF t.exc # "none" THEN t
          ELSE LET e1 == Get(t.d, tvar1)
                   e2 == Get(t.d, tvar1 \o TinterpSuffix)
               IN  IF ~IsRV(e1) THEN Outcome(t.d, "raise", "AttributeError")
                   ELSE IF e1.ndim # e2.ndim \/ Len(e1.values[1]) # Len(e2.values[1])
                   THEN Outcome(t.d, "raise", "ValueError")
                   ELSE LET st == StoreDatetimes(t.d, newname[1], e1.time,
                                                 Elementwise(op, e1.values, e2.values),
                                                 e1.ndim, e1.spec_bins, Absent)
                        IN  IF newname[1] \notin Keys(st.d)
                            THEN Outcome(st.d, "raise", "KeyError")
                            ELSE Outcome(Put(st.d, newname[1],
                                             [Get(st.d, newname[1]) EXCEPT !.po = e1.po]),
                                         IF op = "divide" THEN "None" ELSE "name", "none")

RangeNames == {<<"a">>, <<"b">>}

\* the variable that is modified after it is stored
Target == <<"a">>

\* the second operand of the arithmetic
Operand == <<"b">>

RangeData ==
    {RVData(<<0, 2>>, <<<<R(1)>>, <<R(2)>>>>, 1, Absent),
     RVData(<<0, 1>>, <<<<R(2)>>, <<R(4)>>>>, 1, Absent),
     RVData(<<0, 2>>, <<<<R(1), R(2), R(3)>>, <<R(4), R(5), R(6)>>>>, 2,
            <<R(10), R(20), R(30)>>)}

NewData ==
    {[values |-> <<<<R(3)>>, <<R(5)>>>>, ndim |-> 1],
     [values |-> <<<<R(7), R(8), R(9)>>, <<R(1), R(1), R(1)>>>>, ndim |-> 2]}

ModeOptions == {"spec", "alt", "map", "plotter"}

\* a call that changes the registry, recorded by its name and outcome
RangeCall(op, name, arg, num, out) ==
    /\ Len(out.d) <= MaxVars
    /\ data_quants' = out.d
    /\ last' = Call(op, name, arg, num, <<>>, out, <<>>)
    /\ UNCHANGED <<tplot_opt_glob, lim_info, hover, hist, caller>>

StoreDataRange ==
    \E name \in RangeNames, data \in RangeData :
        RangeCall("store_data", name, <<>>, <<>>,
                  store_data(data_quants, name, data, FALSE, Absent))

ReplaceData ==
    \E new \in NewData :
        RangeCall("replace_data", Target, <<>>, <<>>, replace_data(data_quants, Target, new))

OptionsMode ==
    \E option \in ModeOptions, value \in {<<0>>, <<1>>} :
        RangeCall("options", Target, <<>>, <<>>,
                  options(data_quants, Target, option, value))

OptionsYRange ==
    RangeCall("options_yrange", Target, <<>>, <<>>,
              options(data_quants, Target, "yrange", <<R(0), R(9)>>))

MathInPlace(op) ==
    \E tvar2 \in {Operand} :
        /\ hist.math < MaxMath
        /\ Target \in Keys(data_quants)
        /\ tvar2 \in Keys(data_quants)
        /\ LET out == math_in_place(data_quants, op, Target, tvar2)
           IN  /\ data_quants' = out.d
               /\ last' = Call(op, Target, <<>>, <<>>, <<>>, out, <<>>)
        /\ hist' = [hist EXCEPT !.math = @ + 1]
        /\ UNCHANGED <<tplot_opt_glob, lim_info, hover, caller>>

Divide == MathInPlace("divide")

Multiply == MathInPlace("multiply")

Subtract == MathInPlace("subtract")

NextRange ==
    \/ StoreDataRange
    \/ ReplaceData
    \/ OptionsMode
    \/ OptionsYRange
    \/ Divide
    \/ Multiply
    \/ Subtract

SpecRange == Init /\ [][NextRange]_vars

(***************************************************************************)
(* The numeric transformations of a time series                            *)
(***************************************************************************)
\* tplot_names(quiet=True): the key of an NRV entry and the name of any
\* other entry, in registry order; None has no attrs (AttributeError)
tplot_names(d) ==
    [i \in 1..Len(d) |-> IF IsNRV(d[i].val) THEN d[i].key ELSE d[i].val.name]

HasNone(d) == \E i \in 1..Len(d) : d[i].val.kind = "None"

\* tnames(pattern): the names the pattern matches
tnames(d, pattern) == SelectSeq(tplot_names(d), LAMBDA k : fnmatch(k, pattern))

Slice(s, from, to) == [i \in 1..(to - from) |-> s[from + i]]

\* time_clip: the first index whose time is at or after time_start
index_start(time, time_start) ==
    IF \E i \in 1..Len(time) : time[i] >= time_start
    THEN (CHOOSE i \in 1..Len(time) :
            /\ time[i] >= time_start
            /\ \A j \in 1..(i - 1) : time[j] < time_start) - 1
    ELSE 0

\* an end search that stops at the first time at or after time_end
found_end_exclusive(time, from, time_end) ==
    IF \E i \in (from + 1)..Len(time) : time[i] >= time_end
    THEN (CHOOSE i \in (from + 1)..Len(time) :
            /\ time[i] >= time_end
            /\ \A j \in (from + 1)..(i - 1) : time[j] < time_end) - 1
    ELSE Len(time)

\* time_clip: the first index from index_start on whose time is after time_end
found_end(time, from, time_end) ==
    IF \E i \in (from + 1)..Len(time) : time[i] > time_end
    THEN (CHOOSE i \in (from + 1)..Len(time) :
            /\ time[i] > time_end
            /\ \A j \in (from + 1)..(i - 1) : time[j] <= time_end) - 1
    ELSE Len(time)

TclipSuffix == <<"-", "t", "c", "l", "i", "p">>

\* time_clip(names, time_start, time_end, overwrite=overwrite) for names a
\* literal name, with the default suffix
time_clip(d, names, time_start, time_end, overwrite) ==
    LET old_names == tnames(d, names)
    IN  IF HasNone(d) THEN Outcome(d, "raise", "AttributeError")
        ELSE IF Len(old_names) < 1 THEN Outcome(d, "None", "none")
        ELSE IF time_start > time_end THEN Outcome(d, "None", "none")
        ELSE
          LET old == old_names[1]
              new == IF overwrite THEN old ELSE old \o TclipSuffix
              c == IF old # new THEN tplot_copy(d, old, new) ELSE Outcome(d, "None", "none")
              e == Get(c.d, new)
              time == get_data_time(e)
              n == Len(time)
              from == index_start(time, time_start)
              to == found_end(time, from, time_end)
          IN  IF c.exc # "none" THEN c
              ELSE IF ~IsRV(e) THEN Outcome(c.d, "names", "none")
              ELSE IF n < 1 THEN Outcome(c.d, "names", "none")
              ELSE IF time_start > time[n] \/ time_end < time[1]
              THEN Outcome(c.d, "names", "none")
              ELSE IF time_start <= time[1] /\ time_end >= time[n]
              THEN Outcome(c.d, "names", "none")
              ELSE IF from = to THEN Outcome(c.d, "names", "none")
              ELSE Returning(StoreRV(c.d, new, Slice(time, from, to),
                                     Slice(e.values, from, to), e.ndim, e.spec_bins,
                                     <<e.po>>),
                             "names")

\* the mean of a window of datetime64[ns] times
MeanTime(times) ==
    LET secs == SumSeq([i \in 1..Len(times) |-> R(times[i] \div NsPerSec)])[1]
    IN  (secs \div Len(times)) * NsPerSec + ((secs % Len(times)) * NsPerSec) \div Len(times)

\* DataArray.coarsen(time=res, boundary='trim').mean(): the means of the
\* complete windows of res consecutive samples
coarsen_mean(e, res) ==
    LET n == Len(e.values) \div res
        Window(s, w) == Slice(s, (w - 1) * res, w * res)
    IN  [e EXCEPT !.time = [w \in 1..n |-> MeanTime(Window(e.time, w))],
                  !.values = [w \in 1..n |->
                                [k \in 1..Len(e.values[1]) |->
                                   nanmean(Column(Window(e.values, w), k))]]]

\* avg_res_data(tvar, res, newname=newname)
avg_res_data(d, tvar, res, newname) ==
    IF tvar \notin Keys(d) THEN Outcome(d, "raise", "KeyError")
    ELSE IF ~IsRV(Get(d, tvar)) THEN Outcome(d, "raise", "AttributeError")
    ELSE LET tvar_new == coarsen_mean(Get(d, tvar), res)
         IN  IF newname = Absent THEN Outcome(Put(d, tvar, NoneEntry), "None", "none")
             ELSE LET st == StoreDatetimes(d, newname[1], tvar_new.time, tvar_new.values,
                                           tvar_new.ndim, tvar_new.spec_bins, Absent)
                  IN  IF newname[1] \notin Keys(st.d) THEN Outcome(st.d, "raise", "KeyError")
                      ELSE IF ~IsRV(Get(st.d, newname[1]))
                      THEN Outcome(st.d, "raise", "AttributeError")
                      ELSE Outcome(Put(st.d, newname[1],
                                       [Get(st.d, newname[1]) EXCEPT !.po = Get(st.d, tvar).po]),
                                   "None", "none")

\* deflag, method 'repeat', one column: [col, done]; done is "ok", "return"
\* (no unflagged data) or "ValueError".  For a NaN flag the unflagged
\* indices are numpy.where(numpy.isnan(column) is False)[0]: the condition
\* is the Python constant False, so numpy.where finds nothing, or raises
\* ValueError where numpy rejects a zero-dimensional condition (strict)
RECURSIVE repeat_fill(_, _, _, _)
repeat_fill(col, j, flag, first_ok) ==
    IF j > Len(col) THEN col
    ELSE IF col[j] = flag
    THEN repeat_fill([col EXCEPT ![j] = IF j = 1 THEN first_ok ELSE col[j - 1]],
                     j + 1, flag, first_ok)
    ELSE repeat_fill(col, j + 1, flag, first_ok)

deflag_column(col, flag, strict) ==
    LET flagged == {j \in 1..Len(col) : col[j] = flag}
        okval == IF isnan(flag) THEN {} ELSE {j \in 1..Len(col) : col[j] # flag}
    IN  IF flagged = {} THEN [col |-> col, done |-> "ok"]
        ELSE IF isnan(flag) /\ strict THEN [col |-> col, done |-> "ValueError"]
        ELSE IF okval = {} THEN [col |-> col, done |-> "return"]
        ELSE [col |-> repeat_fill(col, 1, flag,
                                  col[CHOOSE j \in okval : \A i \in okval : j <= i]),
              done |-> "ok"]

\* the columns in order, until one of them ends the call
RECURSIVE deflag_columns(_, _, _, _)
deflag_columns(data, k, flag, strict) ==
    IF k > Len(data[1]) THEN [data |-> data, done |-> "ok"]
    ELSE LET r == deflag_column(Column(data, k), flag, strict)
         IN  IF r.done # "ok" THEN [data |-> data, done |-> r.done]
             ELSE deflag_columns([j \in 1..Len(data) |-> [data[j] EXCEPT ![k] = r.col[j]]],
                                 k + 1, flag, strict)

\* deflag(tvar, flag, newname=newname, method='repeat'); a one-dimensional
\* data array cannot be indexed by [:, k] (IndexError)
deflag(d, tvar, flag, newname, strict) ==
    IF HasNone(d) THEN Outcome(d, "raise", "AttributeError")
    ELSE IF tnames(d, tvar) = <<>> THEN Outcome(d, "raise", "TypeError")
    ELSE LET e == Get(d, tvar)
             r == deflag_columns(e.values, 1, flag, strict)
             target == IF newname = Absent THEN tvar ELSE newname[1]
             st == StoreRV(d, target, get_data_time(e), r.data, e.ndim, e.spec_bins, Absent)
         IN  IF ~IsRV(e) THEN Outcome(d, "raise", "IndexError")
             ELSE IF e.ndim = 1 THEN Outcome(d, "raise", "IndexError")
             ELSE IF r.done = "ValueError" THEN Outcome(d, "raise", "ValueError")
             ELSE IF r.done = "return" THEN Outcome(d, "None", "none")
             ELSE IF newname # Absent /\ e.spec_bins # Absent /\ st.ret = "True"
             THEN Outcome(Put(st.d, target, [Get(st.d, target) EXCEPT !.po = e.po]),
                          "None", "none")
             ELSE Returning(st, "None")

DSuffix == <<"-", "d">>

\* the data of subtract_average: each column that is not all NaN has its
\* nanmean subtracted
subtract_mean(data) ==
    [j \in 1..Len(data) |->
       [k \in 1..Len(data[1]) |->
          IF NotNaN(Column(data, k)) = <<>> THEN data[j][k]
          ELSE FSub(data[j][k], nanmean(Column(data, k)))]]

\* subtract_average(names, overwrite=overwrite) for names a literal name
subtract_average(d, names, overwrite) ==
    LET old_names == tnames(d, names)
    IN  IF HasNone(d) THEN Outcome(d, "raise", "AttributeError")
        ELSE IF Len(old_names) < 1 THEN Outcome(d, "None", "none")
        ELSE
          LET old == old_names[1]
              new == IF overwrite THEN old ELSE old \o DSuffix
              c == IF new # old THEN tplot_copy(d, old, new) ELSE Outcome(d, "None", "none")
              e == Get(c.d, new)
          IN  IF c.exc # "none" THEN c
              ELSE IF ~IsRV(e) THEN Outcome(c.d, "raise", "AttributeError")
              ELSE Outcome(Put(c.d, new, [e EXCEPT !.values = subtract_mean(e.values)]),
                           "names", "none")

\* the name every series is stored under, and the explicit output name
Series == <<"a">>

Output == <<"b">>

\* whole seconds of the samples, at most two
SampleTimes(n) == [i \in 1..n |-> IF i < 3 THEN i - 1 ELSE 2]

SeqsOver(S) == UNION {[1..n -> S] : n \in 1..MaxSamples}

\* series of distinguishable samples at ascending times, and one whose
\* times descend
ClipData ==
    {RVData(ts, [i \in 1..Len(ts) |-> <<R(i)>>], 1, Absent) :
        ts \in {t \in SeqsOver(0..2) : \A i \in 1..(Len(t) - 1) : t[i] <= t[i + 1]}}
    \cup {RVData(<<2, 0>>, <<<<R(1)>>, <<R(2)>>>>, 1, Absent),
          RVData(<<0, 1, 2>>, <<<<R(1), R(2)>>, <<R(3), R(4)>>, <<R(5), R(6)>>>>, 2,
                 <<R(10), R(20)>>),
          NRVData(<<<<R(5)>>>>)}

\* series of one column, as a one-dimensional and as an (n, 1) array, a
\* two-column spectrogram and a non-record-varying variable
SeriesData ==
    {RVData(SampleTimes(Len(ys)), [i \in 1..Len(ys) |-> <<ys[i]>>], ndim, Absent) :
        ys \in SeqsOver({R(1), R(4), NaN}), ndim \in {1, 2}}
    \cup {RVData(<<0, 1>>, <<<<R(1), NaN>>, <<R(4), NaN>>>>, 2, <<R(10), R(20)>>),
          NRVData(<<<<R(1)>>, <<R(4)>>>>)}

\* the series of SeriesData without the (n, 1) arrays
PlainData == {data \in SeriesData : data.ndim # 2 \/ data.v # Absent}

\* a call on the series, recorded with the series' entry before it
SeriesCall(op, arg, num, out) ==
    /\ data_quants' = out.d
    /\ last' = Call(op, Series, arg, num,
                    SelectSeq(data_quants, LAMBDA p : p.key = Series), out, <<>>)
    /\ UNCHANGED <<tplot_opt_glob, lim_info, hover, hist, caller>>

StoreClipData ==
    \E data \in ClipData :
        RangeCall("store_data", Series, <<>>, <<>>,
                  store_data(data_quants, Series, data, FALSE, Absent))

\* windows around the stored times, some of them with time_start > time_end
Windows == {w \in (-1..3) \X (-1..3) : w[2] >= w[1] - 1}

TimeClip ==
    \E w \in Windows : LET time_start == w[1] time_end == w[2] IN
        SeriesCall("time_clip", Series \o TclipSuffix, <<time_start, time_end>>,
                   time_clip(data_quants, Series, time_start, time_end, FALSE))

NextClip == StoreClipData \/ TimeClip

SpecClip == Init /\ [][NextClip]_vars

StorePlain ==
    \E data \in PlainData :
        RangeCall("store_data", Series, <<>>, <<>>,
                  store_data(data_quants, Series, data, FALSE, Absent))

AvgResData ==
    \E res \in {1, 2}, newname \in {Absent, <<Output>>} :
        SeriesCall("avg_res_data", newname, <<res>>,
                   avg_res_data(data_quants, Series, res, newname))

NextAvg == StorePlain \/ AvgResData

SpecAvg == Init /\ [][NextAvg]_vars

StoreSeries ==
    \E data \in SeriesData :
        RangeCall("store_data", Series, <<>>, <<>>,
                  store_data(data_quants, Series, data, FALSE, Absent))

Deflag ==
    \E flag \in {NaN, R(1)}, newname \in {Absent, <<Output>>}, strict \in BOOLEAN :
        SeriesCall("deflag", newname, flag,
                   deflag(data_quants, Series, flag, newname, strict))

NextDeflag == StoreSeries \/ Deflag

SpecDeflag == Init /\ [][NextDeflag]_vars

SubtractAverage ==
    \E overwrite \in BOOLEAN :
        SeriesCall("subtract_average", IF overwrite THEN Series ELSE Series \o DSuffix,
                   <<>>, subtract_average(data_quants, Series, overwrite))

NextSubAvg == StorePlain \/ SubtractAverage

SpecSubAvg == Init /\ [][NextSubAvg]_vars

(***************************************************************************)
(* Options on one variable and on a list of variables                      *)
(***************************************************************************)
\* a line variable, a spectrogram and a non-record-varying variable
OptionsData ==
    {RVData(<<0, 2>>, <<<<R(1)>>, <<R(2)>>>>, 1, Absent),
     RVData(<<0, 2>>, <<<<R(1), R(2)>>, <<R(4), R(5)>>>>, 2, <<R(10), R(20)>>),
     NRVData(<<<<R(5)>>>>)}

\* lists over the stored names a and b and the name c, which is never stored
OptionsLists ==
    {<<<<"a">>, <<"b">>>>, <<<<"b">>, <<"a">>>>, <<<<"a">>, <<"c">>, <<"b">>>>,
     <<<<"c">>, <<"a">>>>}

StoreDataOptions ==
    \E name \in RangeNames, data \in OptionsData :
        RangeCall("store_data", name, <<>>, <<>>,
                  store_data(data_quants, name, data, FALSE, Absent))

OptionsList ==
    \E names \in OptionsLists, option \in {"alt", "map"}, value \in {<<0>>, <<1>>} :
        RegistryCall("options_list", <<option>>, names, value,
                     options_list(data_quants, names, option, value))

NextOptions == StoreDataOptions \/ OptionsMode \/ OptionsYRange \/ OptionsList

SpecOptions == Init /\ [][NextOptions]_vars

\* options on the n-th variable
OptionsIndex ==
    \E n \in -1..3, option \in {"alt", "map"}, value \in {<<0>>, <<1>>} :
        RegistryCall("options_index", <<option>>, value, <<n>>,
                     options_index(data_quants, n, option, value))

IndexedNames == {<<"a">>, <<"b">>, <<"c">>}

StoreDataIndexed ==
    \E name \in IndexedNames :
        RegistryCall("store_data", name, <<>>, <<>>,
                     store_data(data_quants, name,
                                RVData(<<0, 2>>, <<<<R(1)>>, <<R(2)>>>>, 1, Absent),
                                FALSE, Absent))

NextIndex == StoreDataIndexed \/ OptionsIndex

SpecIndex == Init /\ [][NextIndex]_vars

(***************************************************************************)
(* Arithmetic on two variables, in place and under a new name              *)
(***************************************************************************)
MathData ==
    {RVData(<<0, 2>>, <<<<R(1)>>, <<R(2)>>>>, 1, Absent),
     RVData(<<0, 1>>, <<<<R(2)>>, <<R(4)>>>>, 1, Absent)}

\* the new name of a result: none, a fresh name, or the second operand
NewNames == {Absent, <<<<"c">>>>, <<Operand>>}

StoreDataMath ==
    \E name \in RangeNames, data \in MathData :
        LET out == store_data(data_quants, name, data, FALSE, Absent)
        IN  /\ data_quants' = out.d
            /\ last' = Call("store_data", name, <<>>, <<>>, data_quants, out, <<>>)
            /\ UNCHANGED <<tplot_opt_glob, lim_info, hover, hist, caller>>

\* op(Target, tvar2, newname), recorded with tvar2 as the name and the
\* newname as the argument
MathNamed(op) ==
    \E tvar2 \in RangeNames, newname \in NewNames :
        /\ hist.math < MaxMath
        /\ Target \in Keys(data_quants)
        /\ tvar2 \in Keys(data_quants)
        /\ LET out == math(data_quants, op, Target, tvar2, newname)
           IN  /\ data_quants' = out.d
               /\ last' = Call(op, tvar2, newname, <<>>, data_quants, out, <<>>)
        /\ hist' = [hist EXCEPT !.math = @ + 1]
        /\ UNCHANGED <<tplot_opt_glob, lim_info, hover, caller>>

DivideNamed == MathNamed("divide")

MultiplyNamed == MathNamed("multiply")

SubtractNamed == MathNamed("subtract")

NextMath == StoreDataMath \/ DivideNamed \/ MultiplyNamed \/ SubtractNamed

SpecMath == Init /\ [][NextMath]_vars

(***************************************************************************)
(* Display modes and the y range of one variable                           *)
(***************************************************************************)

\* new values of the shapes of the line and of the spectrogram of OptionsData
ModeNewData ==
    {[values |-> <<<<R(3)>>, <<R(5)>>>>, ndim |-> 1],
     [values |-> <<<<R(7), R(8)>>, <<R(1), R(1)>>>>, ndim |-> 2]}

YLimits == {<<R(0), R(9)>>, <<R(5), R(6)>>}

StoreDataMode ==
    \E name \in RangeNames, data \in OptionsData :
        RegistryCall("store_data", name, <<>>, <<>>,
                     store_data(data_quants, name, data, FALSE, Absent))

OptionsNamed ==
    \E name \in {Target}, option \in {"spec", "alt", "map"}, value \in {<<0>>, <<1>>} :
        RegistryCall("options", name, <<option>>, value,
                     options(data_quants, name, option, value))

OptionsYRangeNamed ==
    \E name \in {Target}, r \in YLimits :
        RegistryCall("options", name, <<"yrange">>, r,
                     options(data_quants, name, "yrange", r))

Ylim ==
    \E name \in {Target}, r \in YLimits :
        RegistryCall("ylim", name, <<>>, r, ylim(data_quants, name, r[1], r[2]))

ReplaceDataNamed ==
    \E name \in {Target}, new \in ModeNewData :
        RegistryCall("replace_data", name, <<>>, <<>>, replace_data(data_quants, name, new))

NextMode == StoreDataMode \/ OptionsNamed \/ OptionsYRangeNamed \/ Ylim \/ ReplaceDataNamed

SpecMode == Init /\ [][NextMode]_vars

(***************************************************************************)
(* Pseudo-variables over pseudo-variables, and renamed components          *)
(***************************************************************************)
Components == {<<"a">>, <<"b">>, <<"c">>}

ComponentData == RVData(<<0, 2>>, <<<<R(1)>>, <<R(2)>>>>, 1, Absent)

\* p over a and b, q over p and c, in either order
NestedLists ==
    {[name |-> <<"p">>, data |-> <<<<"a">>, <<"b">>>>],
     [name |-> <<"q">>, data |-> <<<<"p">>, <<"c">>>>],
     [name |-> <<"q">>, data |-> <<<<"c">>, <<"p">>>>]}

\* a component and a pseudo-variable renamed to a new name
Renamings ==
    {[old |-> <<"a">>, new |-> <<"d">>], [old |-> <<"p">>, new |-> <<"d">>]}

\* a call on the registry of components and pseudo-variables
NestedCall(op, name, arg, out) ==
    /\ data_quants' = out.d
    /\ last' = Call(op, name, arg, <<>>, data_quants, out, <<>>)
    /\ UNCHANGED <<tplot_opt_glob, lim_info, hover, hist, caller>>

StoreComponent ==
    \E name \in Components :
        NestedCall("store_data", name, <<>>,
                   store_data(data_quants, name, ComponentData, FALSE, Absent))

StoreNested ==
    \E L \in NestedLists :
        NestedCall("store_data_list", L.name, L.data,
                   store_data(data_quants, L.name, ListData(L.data), FALSE, Absent))

RenameNested ==
    \E r \in Renamings :
        NestedCall("tplot_rename", r.old, r.new, tplot_rename(data_quants, r.old, r.new))

NextNested == StoreComponent \/ StoreNested \/ RenameNested

SpecNested == Init /\ [][NextNested]_vars

(***************************************************************************)
(* Storing numeric times                                                   *)
(***************************************************************************)
TimedNames == {<<"a">>, <<"b">>}

\* times in float seconds: whole seconds, fractions that are and are not a
\* whole number of nanoseconds, descending times, NaN and infinite times;
\* the last series has more times than values
TimedData ==
    {FloatData(<<R(0), R(1), R(2)>>, <<<<R(1)>>, <<R(5)>>, <<R(1)>>>>, 1, Absent),
     FloatData(<<<<1, 2>>, R(1)>>, <<<<R(1)>>, <<NaN>>>>, 1, Absent),
     FloatData(<<<<1, 3>>>>, <<<<R(7)>>>>, 1, Absent),
     FloatData(<<R(2), R(0)>>, <<<<R(1), R(2)>>, <<R(3), R(4)>>>>, 2, <<R(10), R(20)>>),
     FloatData(<<NaN, R(1)>>, <<<<R(1)>>, <<R(2)>>>>, 1, Absent),
     FloatData(<<R(0), PosInf>>, <<<<R(1)>>, <<R(2)>>>>, 1, Absent),
     FloatData(<<R(0), R(1)>>, <<<<R(1)>>>>, 1, Absent)}

StoreDataTimes ==
    \E name \in TimedNames, data \in TimedData :
        RegistryCall("store_data_times", name, data.x, data.y,
                     store_data(data_quants, name, data, FALSE, Absent))

DelDataTimed ==
    \E name \in TimedNames :
        RegistryCall("del_data", name, <<name>>, <<>>, del_data(data_quants, <<name>>))

NextStore == StoreDataTimes \/ DelDataTimed

SpecStore == Init /\ [][NextStore]_vars

(***************************************************************************)
(* Clipping with the whole registry on record                              *)
(***************************************************************************)
\* a series of three samples, one of a single sample and an NRV variable
WindowData ==
    {RVData(<<0, 1, 2>>, <<<<R(1)>>, <<R(2)>>, <<R(3)>>>>, 1, Absent),
     RVData(<<1>>, <<<<R(7)>>>>, 1, Absent),
     NRVData(<<<<R(5)>>>>)}

StoreWindowData ==
    \E data \in WindowData :
        NestedCall("store_data", Series, <<>>,
                   store_data(data_quants, Series, data, FALSE, Absent))

\* time_clip(Series, time_start, time_end, overwrite=overwrite), recorded
\* with the window and the overwrite flag
TimeClipWindow ==
    \E w \in Windows, overwrite \in BOOLEAN :
        LET out == time_clip(data_quants, Series, w[1], w[2], overwrite)
        IN  /\ data_quants' = out.d
            /\ last' = Call("time_clip", Series, <<overwrite>>, w, data_quants, out, <<>>)
            /\ UNCHANGED <<tplot_opt_glob, lim_info, hover, hist, caller>>

DelDataWindow ==
    \E name \in {Series, Series \o TclipSuffix} :
        NestedCall("del_data", name, <<>>, del_data(data_quants, <<name>>))

NextWindow == StoreWindowData \/ TimeClipWindow \/ DelDataWindow

SpecWindow == Init /\ [][NextWindow]_vars

(***************************************************************************)
(* The name each entry carries: store, copy, rename, delete, crop, clip,   *)
(* tinterp                                                                 *)
(***************************************************************************)
\* DataArray.where(v >= ymin).where(v <= ymax): NaN where a test fails
clipped(v, ymin, ymax) ==
    IF ~isnan(v) /\ FLeq(ymin, v) /\ FLeq(v, ymax) THEN v ELSE NaN

\* clip(tvar, ymin, ymax, newname) for tvar a literal name
clip(d, tvar, ymin, ymax, newname) ==
    IF HasNone(d) THEN Outcome(d, "raise", "AttributeError")
    ELSE IF tvar \notin Keys(d) THEN Outcome(d, "raise", "KeyError")
    ELSE IF ~IsRV(Get(d, tvar)) THEN Outcome(d, "raise", "AttributeError")
    ELSE LET e == Get(d, tvar)
             a == [e EXCEPT !.values = [j \in 1..Len(e.values) |->
                                          [k \in 1..Len(e.values[j]) |->
                                             clipped(e.values[j][k], ymin, ymax)]]]
         IN  IF newname = Absent
             THEN Outcome(Put(d, tvar, [a EXCEPT !.name = tvar]), "None", "none")
             ELSE LET st == StoreDatetimes(d, newname[1], a.time, a.values, a.ndim,
                                           a.spec_bins, Absent)
                  IN  IF newname[1] \notin Keys(st.d)
                      THEN Outcome(st.d, "raise", "KeyError")
                      ELSE Outcome(Put(st.d, newname[1],
                                       [Get(st.d, newname[1]) EXCEPT !.po = e.po]),
                                   "None", "none")

CropSuffix == <<"_", "c", "r", "o", "p", "p", "e", "d">>

\* DataArray.sel(time=slice(cut1, cut2)) on ascending times: the samples
\* with cut1 <= time <= cut2
sel(e, cut1, cut2) ==
    LET keep == SelectSeq([i \in 1..Len(e.time) |-> i],
                          LAMBDA i : cut1 <= e.time[i] /\ e.time[i] <= cut2)
    IN  [e EXCEPT !.time = [i \in 1..Len(keep) |-> e.time[keep[i]]],
                  !.values = [i \in 1..Len(keep) |-> e.values[keep[i]]]]

\* crop(tvar1, tvar2, replace): both variables cut to the times they share
crop(d, tvar1, tvar2, replace) ==
    IF tvar1 \notin Keys(d) \/ tvar2 \notin Keys(d) THEN Outcome(d, "raise", "KeyError")
    ELSE IF ~IsRV(Get(d, tvar1)) \/ ~IsRV(Get(d, tvar2))
    THEN Outcome(d, "raise", "AttributeError")
    ELSE IF Get(d, tvar1).time = <<>> \/ Get(d, tvar2).time = <<>>
    THEN Outcome(d, "raise", "IndexError")
    ELSE LET e1 == Get(d, tvar1)
             e2 == Get(d, tvar2)
             cut1 == IF e1.time[1] >= e2.time[1] THEN e1.time[1] ELSE e2.time[1]
             cut2 == IF e1.time[Len(e1.time)] <= e2.time[Len(e2.time)]
                     THEN e1.time[Len(e1.time)] ELSE e2.time[Len(e2.time)]
             tv1 == sel(e1, cut1, cut2)
             tv2 == sel(e2, cut1, cut2)
         IN  IF replace
             THEN Outcome(Put(Put(d, tvar1, [tv1 EXCEPT !.name = tvar1]),
                              tvar2, [tv2 EXCEPT !.name = tvar2]), "None", "none")
             ELSE Outcome(Put(Put(d, tvar1 \o CropSuffix,
                                  [tv1 EXCEPT !.name = tvar1 \o CropSuffix]),
                              tvar2 \o CropSuffix,
                              [tv2 EXCEPT !.name = tvar2 \o CropSuffix]), "name", "none")

\* a line variable with ascending times and an NRV variable
NamedData ==
    {RVData(<<0, 2>>, <<<<R(1)>>, <<R(3)>>>>, 1, Absent),
     NRVData(<<<<R(5)>>>>)}

StoreDataNamed ==
    \E name \in RangeNames, data \in NamedData :
        RangeCall("store_data", name, <<>>, <<>>,
                  store_data(data_quants, name, data, FALSE, Absent))

StorePseudoNamed ==
    RangeCall("store_data", Operand, <<Target, Operand>>, <<>>,
              store_data(data_quants, Operand, ListData(<<Target, Operand>>), FALSE, Absent))

TplotCopyNamed ==
    \E old \in RangeNames, new \in RangeNames :
        RangeCall("tplot_copy", old, new, <<>>, tplot_copy(data_quants, old, new))

TplotRenameNamed ==
    \E old \in RangeNames \cup {Target \o TinterpSuffix}, new \in RangeNames :
        RangeCall("tplot_rename", old, new, <<>>, tplot_rename(data_quants, old, new))

DelDataNamed ==
    \E i \in RangeNames \cup {<<"?">>, <<"a", "*">>} :
        RangeCall("del_data", i, <<i>>, <<>>, del_data(data_quants, <<i>>))

\* crop(Target, tvar2), with the default replace=True
CropNamed ==
    \E tvar2 \in RangeNames :
        RangeCall("crop", Target, tvar2, <<>>, crop(data_quants, Target, tvar2, TRUE))

ClipNamed ==
    \E newname \in {Absent, <<Operand>>} :
        RangeCall("clip", Target, newname, <<>>,
                  clip(data_quants, Target, R(2), R(4), newname))

TinterpNamed ==
    RangeCall("tinterp", Target, Operand, <<>>, tinterp(data_quants, Target, Operand))

NextNames ==
    \/ StoreDataNamed
    \/ StorePseudoNamed
    \/ TplotCopyNamed
    \/ TplotRenameNamed
    \/ DelDataNamed
    \/ CropNamed
    \/ ClipNamed
    \/ TinterpNamed

SpecNames == Init /\ [][NextNames]_vars

(***************************************************************************)
(* Counting the traces of a variable                                       *)
(***************************************************************************)
\* is_pseudovariable(tvar): an RV entry with a non-empty overplots_mpl
is_pseudovariable(d, tvar) ==
    /\ tvar \in Keys(d)
    /\ IsRV(Get(d, tvar))
    /\ Len(Get(d, tvar).po.overplots_mpl) > 0

\* count_traces(tvar) for a list of names, at the given depth of recursion:
\* a pseudo-variable counts what its overplots_mpl list counts, any other
\* variable its columns unless it is a spectrogram, a name that is not a key
\* nothing.  The interpreter ends a recursion deeper than its limit (1000
\* frames by default) with RecursionError; RecursionLimit stands for that
\* limit and is deeper than any nesting of the variables stored here.
RECURSIVE count_traces(_, _, _)
count_traces(d, tvar, depth) ==
    IF depth > RecursionLimit THEN [count |-> 0, exc |-> "RecursionError"]
    ELSE IF tvar = <<>> THEN [count |-> 0, exc |-> "none"]
    ELSE LET v == tvar[1]
             here == IF v \notin Keys(d) THEN [count |-> 0, exc |-> "none"]
                     ELSE IF is_pseudovariable(d, v)
                     THEN count_traces(d, Get(d, v).po.overplots_mpl, depth + 1)
                     ELSE IF ~IsRV(Get(d, v)) THEN [count |-> 0, exc |-> "AttributeError"]
                     ELSE [count |-> IF Truthy(Get(d, v).po.extras.spec) THEN 0
                                     ELSE IF Get(d, v).ndim = 1 THEN 1
                                     ELSE Len(Get(d, v).values[1]),
                           exc |-> "none"]
         IN  IF here.exc # "none" THEN here
             ELSE LET rest == count_traces(d, Tail(tvar), depth)
                  IN  [count |-> here.count + rest.count, exc |-> rest.exc]

TracedNames == {<<"a">>, <<"p">>}

\* a line and a variable of two columns
TracedData ==
    {RVData(<<0, 2>>, <<<<R(1)>>, <<R(2)>>>>, 1, Absent),
     RVData(<<0, 2>>, <<<<R(1), R(2)>>, <<R(4), R(5)>>>>, 2, Absent)}

\* component lists for the pseudo-variable p, one of them naming p itself
TracedLists == {<<<<"a">>>>, <<<<"a">>, <<"p">>>>}

StoreDataTraced ==
    \E name \in {<<"a">>}, data \in TracedData :
        RangeCall("store_data", name, <<>>, <<>>,
                     store_data(data_quants, name, data, FALSE, Absent))

StorePseudoTraced ==
    \E L \in TracedLists :
        RangeCall("store_data", <<"p">>, L, <<>>,
                     store_data(data_quants, <<"p">>, ListData(L), FALSE, Absent))

TplotCopyTraced ==
    \E old \in TracedNames, new \in TracedNames :
        RangeCall("tplot_copy", old, new, <<>>, tplot_copy(data_quants, old, new))

TplotRenameTraced ==
    \E old \in TracedNames, new \in TracedNames :
        RangeCall("tplot_rename", old, new, <<>>, tplot_rename(data_quants, old, new))

DelDataTraced ==
    \E name \in TracedNames :
        RangeCall("del_data", name, <<name>>, <<>>, del_data(data_quants, <<name>>))

\* count_traces(v): the registry is read, the count and the exception are
\* recorded
CountTraces ==
    \E v \in TracedNames :
        LET out == count_traces(data_quants, <<v>>, 1)
        IN  /\ last' = [op |-> "count_traces", name |-> v, arg |-> <<>>,
                        num |-> <<out.count>>, pre |-> <<>>,
                        ret |-> "count", exc |-> out.exc, log |-> <<>>]
            /\ UNCHANGED <<data_quants, tplot_opt_glob, lim_info, hover, hist, caller>>

NextTraces ==
    \/ StoreDataTraced
    \/ StorePseudoTraced
    \/ TplotCopyTraced
    \/ TplotRenameTraced
    \/ DelDataTraced
    \/ CountTraces

SpecTraces == Init /\ [][NextTraces]_vars

(***************************************************************************)
(* One dict passed to store_data more than once                            *)
(***************************************************************************)
\* the dicts a caller builds: a line, two columns without bins, two columns
\* with bins
Mappings ==
    {[x |-> <<<<0, 2>>>>, y |-> <<<<<<R(1)>>, <<R(2)>>>>>>, v |-> Absent, ndim |-> 1],
     [x |-> <<<<0, 2>>>>, y |-> <<<<<<R(1), R(2)>>, <<R(4), R(5)>>>>>>, v |-> Absent,
      ndim |-> 2],
     [x |-> <<<<0, 2>>>>, y |-> <<<<<<R(1), R(2)>>, <<R(4), R(5)>>>>>>,
      v |-> <<<<R(10), R(20)>>>>, ndim |-> 2]}

\* the caller builds a dict
NewMapping ==
    \E m \in Mappings :
        /\ caller' = [data |-> m, built |-> m]
        /\ last' = [NoCall EXCEPT !.op = "dict"]
        /\ UNCHANGED <<data_quants, tplot_opt_glob, lim_info, hover, hist>>

\* store_data(name, data=d) with the dict the caller holds
StoreDataMapping ==
    \E name \in RangeNames :
        /\ caller.built # NoMapping
        /\ LET r == store_data_mapping(data_quants, name, caller.data)
           IN  /\ data_quants' = r.out.d
               /\ caller' = [caller EXCEPT !.data = r.m]
               /\ last' = Call("store_data_mapping", name, <<>>, <<>>, data_quants,
                               r.out, <<>>)
        /\ UNCHANGED <<tplot_opt_glob, lim_info, hover, hist>>

DelDataMapping ==
    \E name \in RangeNames :
        RegistryCall("del_data", name, <<name>>, <<>>, del_data(data_quants, <<name>>))

NextMapping == NewMapping \/ StoreDataMapping \/ DelDataMapping

SpecMapping == Init /\ [][NextMapping]_vars

(***************************************************************************)
(* Replacing the metadata of a variable                                    *)
(***************************************************************************)
\* replace_metadata(tplot_name, new_metadata), new_metadata given by its
\* plot_options: attrs becomes the deep copy, then y_range is assigned in
\* plot_options.yaxis_opt, which raises KeyError when there is none
replace_metadata(d, tplot_name, new_metadata) ==
    IF tplot_name \notin Keys(d) THEN Outcome(d, "None", "none")
    ELSE IF ~IsRV(Get(d, tplot_name)) THEN Outcome(d, "raise", "AttributeError")
    ELSE LET e == [Get(d, tplot_name) EXCEPT !.po = new_metadata]
         IN  IF "yaxis_opt" \notin DOMAIN new_metadata
             THEN Outcome(Put(d, tplot_name, e), "raise", "KeyError")
             ELSE Outcome(Put(d, tplot_name, WithYRange(e, get_y_range(e))), "None", "none")

\* plot_options of a variable shown on an alternative axis with a range the
\* user has set, and plot_options without yaxis_opt
Metadata ==
    {[NoOptions EXCEPT !.extras.alt = <<1>>,
                       !.yaxis_opt = [y_range |-> <<R(0), R(9)>>, y_range_user |-> TRUE]],
     [overplots |-> <<>>, overplots_mpl |-> <<>>,
      extras |-> [NoExtras EXCEPT !.map = <<1>>], trange |-> Absent]}

StoreDataMeta ==
    \E name \in RangeNames, data \in OptionsData :
        RegistryCall("store_data", name, <<>>, <<>>,
                     store_data(data_quants, name, data, FALSE, Absent))

ReplaceMetadata ==
    \E name \in RangeNames, m \in Metadata :
        RegistryCall("replace_metadata", name, <<m>>, <<>>,
                     replace_metadata(data_quants, name, m))

NextMeta == StoreDataMeta \/ ReplaceMetadata

SpecMeta == Init /\ [][NextMeta]_vars

(***************************************************************************)
(* Properties                                                              *)
(***************************************************************************)
\* an entry without its name attribute: what rename must carry over
Content(e) == [e EXCEPT !.name = <<>>]

\* C1: tplot_rename(old, new) with old a key and new not a key: the key
\* sequence is the previous one with old replaced by new in place, the entry
\* under each position is the entry that was there (under new: the entry
\* previously under old), and old is absent.
C1_RenameInPlace ==
    (last.op = "tplot_rename" /\ last.name \in Keys(last.pre)
        /\ last.arg \notin Keys(last.pre))
    => /\ last.exc = "none"
       /\ Len(data_quants) = Len(last.pre)
       /\ \A i \in 1..Len(last.pre) :
            /\ data_quants[i].key =
                 (IF last.pre[i].key = last.name THEN last.arg ELSE last.pre[i].key)
            /\ Content(data_quants[i].val) = Content(last.pre[i].val)
            /\ data_quants[i].val.name = data_quants[i].key
       /\ last.name \notin Keys(data_quants)

\* C1 witness: a rename of a key that is not the last of the registry
C1_Witness ==
    /\ last.op = "tplot_rename"
    /\ Len(last.pre) >= 2
    /\ last.pre[1].key = last.name
    /\ last.arg \notin Keys(last.pre)
    /\ data_quants[1].key = last.arg
    /\ Content(last.pre[1].val) # Content(last.pre[2].val)

\* the names of a pseudo-variable call: the list, or the split string
ListedNames == IF last.op = "store_data_string" THEN Split(last.arg, <<>>) ELSE last.arg

\* C2: store_data(name, data=L) with at least one listed name a registry
\* key returns True; overplots_mpl is the subsequence of L of the names that
\* were keys, overplots is that list without its first element, and the
\* sample data are those of the first resolved component.
C2_PseudoComponents ==
    (last.op \in {"store_data_list", "store_data_string"}
        /\ \E i \in 1..Len(ListedNames) : ListedNames[i] \in Keys(last.pre))
    => LET resolved == SelectSeq(ListedNames, LAMBDA n : n \in Keys(last.pre))
       IN  /\ last.ret = "True"
           /\ last.name \in Keys(data_quants)
           /\ Get(data_quants, last.name).po.overplots_mpl = resolved
           /\ Get(data_quants, last.name).po.overplots = Tail(resolved)
           /\ Get(data_quants, last.name).values = Get(last.pre, resolved[1]).values
           /\ Get(data_quants, last.name).time = Get(last.pre, resolved[1]).time

\* filename-style matching, stated independently of the matcher: the pattern
\* items consume consecutive stretches of the name, '*' any stretch, every
\* other item one character, '?' any character
GlobMatches(name, pat) ==
    \E w \in [1..Len(pat) -> 0..Len(name)] :
        LET start(k) == SumSeq([j \in 1..(k - 1) |-> R(w[j])])[1]
        IN  /\ start(Len(pat) + 1) = Len(name)
            /\ \A k \in 1..Len(pat) :
                 \/ pat[k] = "*"
                 \/ w[k] = 1 /\ (pat[k] = "?" \/ name[start(k) + 1] = pat[k])

\* C5: del_data(p) with a wildcard pattern removes exactly the entries whose
\* name matches p; the others remain, in order, with their content.
C5_DelDataGlob ==
    (last.op = "del_data" /\ IsWild(last.name))
    => /\ last.exc = "none"
       /\ data_quants = SelectSeq(last.pre, LAMBDA e : ~GlobMatches(e.key, last.name))

\* C5 witness: a pattern that removed two entries and left one
C5_Witness ==
    /\ last.op = "del_data"
    /\ IsWild(last.name)
    /\ Len(last.pre) = 3
    /\ Len(data_quants) = 1

\* C3: once two or more xlim calls were made, tlimit(last=True) sets x_range
\* to the value x_range had immediately before the most recent xlim call.
C3_TlimitLastRestores ==
    (last.op = "tlimit_last" /\ hist.xlims >= 2)
    => (last.exc = "none" /\ tplot_opt_glob.x_range = hist.before)

\* C4: change_hover_time(t, name) stores t and calls every registered
\* listener exactly once, in registration order, with (t, name), whatever
\* listeners raise, and returns normally.
C4_EveryListenerCalled ==
    last.op = "change_hover_time"
    => /\ hover.hover_time = last.num[1]
       /\ last.exc = "none"
       /\ Len(last.log) = Len(hover.functions_to_call)
       /\ \A i \in 1..Len(last.log) :
            /\ last.log[i].fn = hover.functions_to_call[i]
            /\ last.log[i].time = last.num[1]
            /\ last.log[i].name = last.arg

\* C4 witness: a raising listener is registered before another one
C4_Witness ==
    /\ last.op = "change_hover_time"
    /\ Len(hover.functions_to_call) >= 2
    /\ hover.functions_to_call[1] = "boom"
    /\ last.log[2].fn = "f"

\* C6: every RV variable whose y range the user has not set carries the
\* auto-range of its current data and spectrogram flag.
C6_YRangeNeverStale ==
    \A i \in 1..Len(data_quants) :
        (IsRV(data_quants[i].val) /\ ~data_quants[i].val.po.yaxis_opt.y_range_user)
        => data_quants[i].val.po.yaxis_opt.y_range = get_y_range(data_quants[i].val)

\* the variable a call on the series was applied to, as it was before it
Source == Get(last.pre, last.name)

\* the samples of a variable: times in nanoseconds, and values
Samples(e) == [i \in 1..Len(e.time) |-> [t |-> e.time[i], y |-> e.values[i]]]

\* the samples whose time lies in [lo, hi], lo and hi in whole seconds
InWindow(s, lo, hi) ==
    SelectSeq(s, LAMBDA p :
        /\ lo <= p.t \div NsPerSec
        /\ \/ p.t \div NsPerSec < hi
           \/ (p.t \div NsPerSec = hi /\ p.t % NsPerSec = 0))

\* C7: avg_res_data(tvar, res) without newname leaves under tvar an RV
\* variable named tvar with floor(n/res) samples, each the mean of res
\* consecutive samples of the input.
C7_AvgResInPlace ==
    (/\ last.op = "avg_res_data"
     /\ last.arg = Absent
     /\ last.name \in Keys(last.pre)
     /\ IsRV(Source))
    => /\ last.exc = "none"
       /\ last.name \in Keys(data_quants)
       /\ LET e == Get(data_quants, last.name)
              res == last.num[1]
          IN  /\ IsRV(e)
              /\ e.name = last.name
              /\ Len(e.values) = Len(Source.values) \div res
              /\ \A w \in 1..Len(e.values) : \A k \in 1..Len(e.values[w]) :
                   e.values[w][k] =
                     FDiv(SumSeq([r \in 1..res |-> Source.values[(w - 1) * res + r][k]]),
                          R(res))

\* C8: time_clip of a variable with ascending times and time_start <=
\* time_end leaves in the output variable exactly the samples with
\* time_start <= t <= time_end, in order, when there are any, and all the
\* samples otherwise.
C8_TimeClipInclusive ==
    (/\ last.op = "time_clip"
     /\ last.name \in Keys(last.pre)
     /\ IsRV(Source)
     /\ \A i \in 1..(Len(Source.time) - 1) : Source.time[i] <= Source.time[i + 1]
     /\ last.num[1] <= last.num[2])
    => /\ last.exc = "none"
       /\ last.arg \in Keys(data_quants)
       /\ IsRV(Get(data_quants, last.arg))
       /\ Samples(Get(data_quants, last.arg)) =
            IF InWindow(Samples(Source), last.num[1], last.num[2]) # <<>>
            THEN InWindow(Samples(Source), last.num[1], last.num[2])
            ELSE Samples(Source)

\* C8 witness: a clip that drops the first sample and keeps the one at
\* time_end
C8_Witness ==
    /\ last.op = "time_clip"
    /\ last.name \in Keys(last.pre)
    /\ IsRV(Source)
    /\ last.num = <<1, 2>>
    /\ get_data_time(Source) = <<0, 1, 2>>
    /\ last.arg = last.name \o TclipSuffix
    /\ last.arg \in Keys(data_quants)
    /\ get_data_time(Get(data_quants, last.arg)) = <<1, 2>>

\* the value deflag's method 'repeat' is to leave at index j: the sample, or
\* for a NaN sample the nearest non-NaN sample before it, or the first
\* non-NaN sample when there is none before it
Repeated(col, j) ==
    IF ~isnan(col[j]) \/ NotNaN(col) = <<>> THEN col[j]
    ELSE IF \E i \in 1..(j - 1) : ~isnan(col[i])
    THEN col[CHOOSE i \in 1..(j - 1) : ~isnan(col[i]) /\ \A m \in (i + 1)..(j - 1) : isnan(col[m])]
    ELSE NotNaN(col)[1]

\* C9: deflag(tvar, flag=NaN, method='repeat') on a single-column series
\* replaces every NaN sample by the nearest preceding non-NaN value (the
\* first non-NaN value at the start) and leaves the other samples unchanged.
C9_DeflagRepeat ==
    (/\ last.op = "deflag"
     /\ isnan(last.num)
     /\ last.arg = Absent
     /\ last.name \in Keys(last.pre)
     /\ IsRV(Source)
     /\ Len(Source.values[1]) = 1)
    => /\ last.exc = "none"
       /\ last.name \in Keys(data_quants)
       /\ Get(data_quants, last.name).values =
            [j \in 1..Len(Source.values) |-> <<Repeated(Column(Source.values, 1), j)>>]

\* the sum of the values that are not NaN
NanSum(col) == SumSeq(NotNaN(col))

\* C10: subtract_average(name) without newname and overwrite creates
\* name + '-d' holding the source data minus its per-column NaN-ignoring
\* mean, each column that is not all NaN summing to 0, and leaves the source
\* data unchanged.
C10_SubtractAverage ==
    (/\ last.op = "subtract_average"
     /\ last.arg = last.name \o DSuffix
     /\ last.name \in Keys(last.pre))
    => /\ last.exc = "none"
       /\ last.arg \in Keys(data_quants)
       /\ last.name \in Keys(data_quants)
       /\ Get(data_quants, last.name).values = Source.values
       /\ LET out == Get(data_quants, last.arg).values
          IN  /\ Len(out) = Len(Source.values)
              /\ \A j \in 1..Len(out) :
                   out[j] = [k \in 1..Len(Source.values[j]) |->
                               FSub(Source.values[j][k], nanmean(Column(Source.values, k)))]
              /\ \A k \in 1..Len(out[1]) :
                   NotNaN(Column(out, k)) # <<>> => NanSum(Column(out, k)) = R(0)

\* C11: store_data(name, data=L) with no name of L a registry key returns
\* False and leaves the registry as it was: the keys, their order and every
\* entry, an existing entry under name included.
C11_NoComponentNoChange ==
    (last.op = "store_data_list"
        /\ \A i \in 1..Len(last.arg) : last.arg[i] \notin Keys(last.pre))
    => /\ last.ret = "False"
       /\ last.exc = "none"
       /\ data_quants = last.pre

\* C11 witness: the call fails while an entry is stored under name
C11_Witness ==
    /\ last.op = "store_data_list"
    /\ \A i \in 1..Len(last.arg) : last.arg[i] \notin Keys(last.pre)
    /\ last.name \in Keys(last.pre)
    /\ last.ret = "False"
    /\ last.name \in Keys(data_quants)

\* what a successful store_data(name, {'x': X, 'y': Y}) is to leave: one
\* entry under name, in the slot of the previous entry of that name or at
\* the end, the other entries as they were, the stored pairs and trange
StoredAsGiven ==
    LET X == last.arg
        e == Get(data_quants, last.name)
    IN  /\ KeySeq(data_quants) =
             (IF last.name \in Keys(last.pre) THEN KeySeq(last.pre)
              ELSE Append(KeySeq(last.pre), last.name))
        /\ Cardinality({i \in 1..Len(data_quants) : data_quants[i].key = last.name}) = 1
        /\ \A i \in 1..Len(last.pre) :
             last.pre[i].key # last.name => data_quants[i] = last.pre[i]
        /\ IsRV(e)
        /\ [i \in 1..Len(e.time) |-> time_float(e.time[i])] = X
        /\ e.values = last.num
        /\ e.po.trange = <<X[1], X[Len(X)]>>

\* a time that is finite and a whole number of nanoseconds
WholeNanoseconds(x) == isfinite(x) /\ (x[1] * NsPerSec) % x[2] = 0

C13_RenameOntoExisting ==
    (/\ last.op = "tplot_rename"
     /\ last.name \in Keys(last.pre)
     /\ last.arg \in Keys(last.pre)
     /\ last.arg # last.name)
    => /\ last.exc = "none"
       /\ Cardinality(Keys(data_quants)) = Len(data_quants)
       /\ last.name \notin Keys(data_quants)
       /\ last.arg \in Keys(data_quants)
       /\ Content(Get(data_quants, last.arg)) = Content(Get(last.pre, last.name))

IsPseudo(e) == IsRV(e) /\ e.po.overplots_mpl # <<>>

\* the listed names with every pseudo-variable replaced by its components
RECURSIVE Expanded(_, _)
Expanded(d, names) ==
    IF names = <<>> THEN <<>>
    ELSE (IF IsPseudo(Get(d, names[1])) THEN Get(d, names[1]).po.overplots_mpl
          ELSE <<names[1]>>) \o Expanded(d, Tail(names))

\* C14: store_data(p2, data=L) where the names of L are registered and one
\* of them is a pseudo-variable over registered base variables: p2's
\* overplots_mpl is L with the pseudo-variable replaced by its components.
C14_NestedPseudoExpanded ==
    (/\ last.op = "store_data_list"
     /\ \A i \in 1..Len(last.arg) : last.arg[i] \in Keys(last.pre)
     /\ \E i \in 1..Len(last.arg) : IsPseudo(Get(last.pre, last.arg[i]))
     /\ \A i \in 1..Len(Expanded(last.pre, last.arg)) :
          /\ Expanded(last.pre, last.arg)[i] \in Keys(last.pre)
          /\ ~IsPseudo(Get(last.pre, Expanded(last.pre, last.arg)[i])))
    => /\ last.ret = "True"
       /\ last.name \in Keys(data_quants)
       /\ Get(data_quants, last.name).po.overplots_mpl = Expanded(last.pre, last.arg)

\* the entries of the registry before a rename that the entry now under
\* key k can come from: the one under k, and for the new name the one
\* under the old name
CameFrom(k) ==
    {j \in 1..Len(last.pre) :
        last.pre[j].key = k \/ (k = last.arg /\ last.pre[j].key = last.name)}

\* C19: tplot_rename(old, new) leaves the overplots and overplots_mpl
\* lists of every entry as they were.
C19_RenameKeepsComponentLists ==
    (last.op = "tplot_rename" /\ last.name \in Keys(last.pre))
    => \A i \in 1..Len(data_quants) :
         \E j \in CameFrom(data_quants[i].key) :
            /\ data_quants[i].val.po.overplots = last.pre[j].val.po.overplots
            /\ data_quants[i].val.po.overplots_mpl = last.pre[j].val.po.overplots_mpl

\* C19 witness: a pseudo-variable lists a name that the rename has removed
\* from the registry
C19_Witness ==
    /\ last.op = "tplot_rename"
    /\ last.name \in Keys(last.pre)
    /\ last.name \notin Keys(data_quants)
    /\ \E i \in 1..Len(data_quants) :
         \E k \in 1..Len(data_quants[i].val.po.overplots_mpl) :
            /\ data_quants[i].val.po.overplots_mpl[k] = last.name
            /\ data_quants[i].val.po.overplots_mpl = last.pre[i].val.po.overplots_mpl

\* C15: once xlim has been called, x_range_full and xfull are the bounds of
\* the first xlim call, whatever xlim and tlimit calls followed.
C15_FullRangeIsFirst ==
    hist.xlims >= 1
    => /\ tplot_opt_glob.x_range_full = hist.first
       /\ lim_info.xfull = hist.first

\* C16: tlimit(last=True) returns without raising in every state, and
\* leaves x_range equal to x_range_last.
C16_TlimitLastNeverRaises ==
    last.op = "tlimit_last"
    => /\ last.exc = "none"
       /\ tplot_opt_glob.x_range_last # Absent
       /\ tplot_opt_glob.x_range = tplot_opt_glob.x_range_last

\* the display modes of an entry that are switched on
ModesOn(e) == {m \in {"spec", "alt", "map"} : Truthy(e.po.extras[m])}

FirstAbsent ==
    CHOOSE k \in 1..Len(last.arg) :
        /\ last.arg[k] \notin Keys(last.pre)
        /\ \A i \in 1..(k - 1) : last.arg[i] \in Keys(last.pre)

\* C20: options(names, option, value) with a name of the list absent from
\* the registry returns at the first absent name: every variable listed
\* before it has the option set, and no other variable is changed.
C20_OptionsStopsAtAbsent ==
    (last.op = "options_list"
        /\ \E k \in 1..Len(last.arg) : last.arg[k] \notin Keys(last.pre))
    => /\ last.exc = "none"
       /\ KeySeq(data_quants) = KeySeq(last.pre)
       /\ \A i \in 1..(FirstAbsent - 1) :
            Get(data_quants, last.arg[i]).po.extras[last.name[1]] = last.num
       /\ \A j \in 1..Len(last.pre) :
            (\A i \in 1..(FirstAbsent - 1) : last.arg[i] # last.pre[j].key)
            => data_quants[j] = last.pre[j]

\* an item of a del_data list names or matches a key
Hits(item, key) == IF IsWild(item) THEN GlobMatches(key, item) ELSE item = key

\* the list of a del_data call stops at position k: a literal name that was
\* not a key, or that an earlier item had already removed
StopsAt(k) ==
    /\ ~IsWild(last.arg[k])
    /\ \/ last.arg[k] \notin Keys(last.pre)
       \/ \E j \in 1..(k - 1) : Hits(last.arg[j], last.arg[k])

FirstStop ==
    CHOOSE k \in 1..Len(last.arg) : StopsAt(k) /\ \A j \in 1..(k - 1) : ~StopsAt(j)

\* C18: del_data(list) returns at the first literal name that is not in the
\* registry: exactly the entries named or matched by an earlier item of the
\* list are deleted, and the others, those named or matched only by later
\* items included, remain.
C18_DelDataStopsAtAbsent ==
    (last.op = "del_data_list" /\ \E k \in 1..Len(last.arg) : StopsAt(k))
    => /\ last.exc = "none"
       /\ data_quants =
            SelectSeq(last.pre, LAMBDA e :
                \A j \in 1..(FirstStop - 1) : ~Hits(last.arg[j], e.key))

\* C18 witness: the first name is deleted, the second is absent, and the
\* entry the third item matches remains
C18_Witness ==
    /\ last.op = "del_data_list"
    /\ last.arg = <<<<"a">>, <<"a", "b">>, <<"?">>>>
    /\ KeySeq(last.pre) = <<<<"a">>, <<"b">>>>
    /\ KeySeq(data_quants) = <<<<"b">>>>

\* C21: options(n, option, value) with an integer n from 1 to the number of
\* variables sets the option on the n-th variable in insertion order,
\* counting from 1, and on no other.
C21_OptionsIndexFromOne ==
    (/\ last.op = "options_index"
     /\ last.num[1] >= 1
     /\ last.num[1] <= Len(last.pre))
    => /\ last.exc = "none"
       /\ Len(data_quants) = Len(last.pre)
       /\ data_quants[last.num[1]].val.po.extras[last.name[1]] = last.arg
       /\ \A i \in 1..Len(last.pre) : i # last.num[1] => data_quants[i] = last.pre[i]

\* a call options(name, 'spec', v) of SpecMode with truthy v on a stored
\* variable without spec_bins
SpecWithoutBins ==
    /\ last.op = "options"
    /\ last.arg = <<"spec">>
    /\ Truthy(last.num)
    /\ last.name \in Keys(last.pre)
    /\ Get(last.pre, last.name).spec_bins = Absent

\* C22: options(name, 'spec', v) with truthy v on a variable without a
\* spec_bins coordinate leaves extras.spec falsy, y_range as it was and adds
\* no spec_dim_to_plot to extras.
C22_SpecNeedsBins ==
    SpecWithoutBins
    => /\ last.name \in Keys(data_quants)
       /\ ~Truthy(Get(data_quants, last.name).po.extras.spec)
       /\ Get(data_quants, last.name).po.yaxis_opt.y_range
            = Get(last.pre, last.name).po.yaxis_opt.y_range
       /\ Get(data_quants, last.name).po.extras.spec_dim_to_plot
            = Get(last.pre, last.name).po.extras.spec_dim_to_plot

\* C22 witness: the call on a line variable whose y range the user had set
\* and which had alt switched on; the call has reset the flags
C22_Witness ==
    /\ SpecWithoutBins
    /\ last.exc = "none"
    /\ IsRV(Get(last.pre, last.name))
    /\ Truthy(Get(last.pre, last.name).po.extras.alt)
    /\ Get(last.pre, last.name).po.yaxis_opt.y_range_user
    /\ Get(data_quants, last.name).po.extras.spec = <<0>>
    /\ Get(data_quants, last.name).po.extras.spec_dim_to_plot = Absent

\* C23: ylim(name, lo, hi) and options(name, 'yrange', [lo, hi]) on a stored
\* variable leave y_range = [lo, hi] with y_range_user set, and a later
\* replace_data or options(name, 'spec', ...) on a variable whose range the
\* user has set leaves y_range as it was.
C23_UserRangeKept ==
    /\ (/\ last.op = "ylim" \/ (last.op = "options" /\ last.arg = <<"yrange">>)
        /\ last.name \in Keys(last.pre))
       => /\ last.exc = "none"
          /\ Get(data_quants, last.name).po.yaxis_opt
               = [y_range |-> last.num, y_range_user |-> TRUE]
    /\ (/\ last.op = "replace_data" \/ (last.op = "options" /\ last.arg = <<"spec">>)
        /\ last.name \in Keys(last.pre)
        /\ Get(last.pre, last.name).po.yaxis_opt.y_range_user)
       => Get(data_quants, last.name).po.yaxis_opt.y_range
            = Get(last.pre, last.name).po.yaxis_opt.y_range

\* the key a divide, multiply or subtract call may write: newname, or
\* tvar1 when there is none
MathResult == IF last.arg = Absent THEN Target ELSE last.arg[1]

\* C24: divide, multiply and subtract (tvar1, tvar2, newname=n) that return
\* change the registry only under n, or under tvar1 when newname is omitted:
\* every other entry is as before and no other key is added.
C24_MathWritesOnlyResult ==
    (last.op \in {"divide", "multiply", "subtract"} /\ last.exc = "none")
    => /\ Keys(data_quants) \subseteq Keys(last.pre) \cup {MathResult}
       /\ \A k \in Keys(last.pre) \ {MathResult} :
             k \in Keys(data_quants) /\ Get(data_quants, k) = Get(last.pre, k)

\* a time_clip call of SpecWindow without overwrite on a stored RV variable
\* all of whose samples lie outside the window [time_start, time_end]
ClipOutsideSpan ==
    /\ last.op = "time_clip"
    /\ last.arg = <<FALSE>>
    /\ last.name \in Keys(last.pre)
    /\ IsRV(Get(last.pre, last.name))
    /\ last.num[1] <= last.num[2]
    /\ \A i \in 1..Len(Get(last.pre, last.name).time) :
          \/ get_data_time(Get(last.pre, last.name))[i] < last.num[1]
          \/ get_data_time(Get(last.pre, last.name))[i] > last.num[2]
    /\ \/ get_data_time(Get(last.pre, last.name))[1] > last.num[2]
       \/ get_data_time(Get(last.pre, last.name))[Len(Get(last.pre, last.name).time)]
            < last.num[1]

\* C25: time_clip(name, s, e) without overwrite and with the window entirely
\* outside the variable's time span leaves the registry as it was.
C25_ClipOutsideNoChange ==
    ClipOutsideSpan => data_quants = last.pre

C26_DeleteOnly ==
    last.op = "store_data_delete"
    => /\ last.exc = "none"
       /\ last.ret = "False"
       /\ last.name \notin Keys(data_quants)
       /\ Keys(data_quants) \subseteq Keys(last.pre)
       /\ \A k \in Keys(data_quants) : Get(data_quants, k) = Get(last.pre, k)

\* C26 witness: the call with data and a newname on one of two stored
\* variables has removed that one only
C26_Witness ==
    /\ last.op = "store_data_delete"
    /\ last.arg # Absent
    /\ last.num = <<"rv">>
    /\ last.name \in Keys(last.pre)
    /\ Len(last.pre) = 2
    /\ Len(data_quants) = 1
    /\ last.arg[1] \notin Keys(data_quants)

\* C28: count_traces(v) comes to an end in every registry that store_data,
\* tplot_copy, tplot_rename and del_data calls can build: its recursion
\* never reaches the depth at which the interpreter gives up.
C28_CountTracesTerminates ==
    last.op = "count_traces" => last.exc # "RecursionError"

\* C29: store_data(name, data=d) with a dict d built with 'x' and 'y',
\* called once or again with the same d, leaves d as the caller built it,
\* returns True and stores under name the RV variable that the dict as built
\* describes.
C29_MappingNotModified ==
    last.op = "store_data_mapping"
    => /\ caller.data = caller.built
       /\ last.exc = "none"
       /\ last.ret = "True"
       /\ last.name \in Keys(data_quants)
       /\ Get(data_quants, last.name)
            = Get(StoreRV(last.pre, last.name, caller.built.x[1], caller.built.y[1],
                          caller.built.ndim,
                          IF caller.built.v = Absent THEN Absent ELSE caller.built.v[1],
                          Absent).d, last.name)

\* C30: replace_metadata(name, m) on a stored variable either completes,
\* leaving the variable's attributes a copy of m with y_range recomputed, or
\* leaves the variable as it was before the call.
C30_ReplaceMetadataAllOrNothing ==
    (last.op = "replace_metadata" /\ last.name \in Keys(last.pre))
    => \/ /\ last.exc = "none"
          /\ Get(data_quants, last.name).po
               = [last.arg[1] EXCEPT !.yaxis_opt.y_range =
                                        get_y_range(Get(data_quants, last.name))]
       \/ /\ last.exc # "none"
          /\ data_quants = last.pre
====
